---- MODULE Spec2Model ----
(***************************************************************************)
(* Overlay resolution and traversal of fs-embed (Dir, File, DirEntry,      *)
(* DirSet) and rust-silos (Silo, SiloSet, File).                           *)
(*                                                                         *)
(* A path is a sequence of components.  The disk is one tree of absolute   *)
(* paths; an embedded table is a tree of paths relative to its root.       *)
(***************************************************************************)
EXTENDS Integers, Sequences, FiniteSets, TLC

VARIABLES
    disk,       \* the filesystem: absolute path -> node
    embedded,   \* static tables: root path -> (relative path -> node)
    listing,    \* enumeration order of an OS directory read / static map
    dirs,       \* DirSet.dirs
    silos,      \* SiloSet.silos
    w,          \* the iterator returned by DirSet::walk
    wo,         \* the iterator returned by DirSet::walk_override
    dw,         \* the iterator returned by Dir::walk
    si,         \* the iterator returned by SiloSet::iter_override
    res,        \* the value returned by the last lookup or read
    t1,         \* the first of two traversals of the DirSet held at once
    t2          \* the second of them

vars == <<disk, embedded, listing, dirs, silos, w, wo, dw, si, res, t1, t2>>

----------------------------------------------------------------------------
(* Bounds *)

MaxRoots == 2

MaxContentLen == 3

\* component names, in sorted order
Names == <<"a", "s">>

\* the file and directory paths a root's tree is built from
FilePaths == {<<"a">>, <<"s">>, <<"s", "a">>}
DirPaths == {<<"s">>}

\* names handed to the lookups
LookupNames == {<<>>, <<"a">>, <<"s">>, <<"s", "a">>, <<"x">>}

\* names handed to get_dir: a directory is looked up by a name, never by ""
DirNames == LookupNames \ {<<>>}

\* bytes that file contents of the read checks are made of
ByteSamples == {65, 128, 160, 195, 224, 226, 237, 253, 254, 255}

\* the contents of up to n of them
ByteSeqs(n) == UNION {[1..k -> ByteSamples] : k \in 0..n}

----------------------------------------------------------------------------
(* Paths *)

None == [tag |-> "None"]

Some(v) == [tag |-> "Some", v |-> v]

Range(s) == {s[i] : i \in 1..Len(s)}

Reverse(s) == [i \in 1..Len(s) |-> s[Len(s) + 1 - i]]

RECURSIVE SeqSum(_)
SeqSum(s) == IF s = <<>> THEN 0 ELSE Head(s) + SeqSum(Tail(s))

RECURSIVE Concat(_)
Concat(ss) == IF ss = <<>> THEN <<>> ELSE Head(ss) \o Concat(Tail(ss))

IsPrefix(p, q) == Len(p) <= Len(q) /\ SubSeq(q, 1, Len(p)) = p

\* Path::join with a relative name
Join(p, name) == p \o name

\* Path::strip_prefix(root).unwrap_or(path)
StripPrefixOr(root, path) ==
    IF IsPrefix(root, path) THEN SubSeq(path, Len(root) + 1, Len(path)) ELSE path

----------------------------------------------------------------------------
(* The world: trees, the disk and the embedded tables *)

NameByte(n) == IF n = "a" THEN 97 ELSE IF n = "s" THEN 115 ELSE 120

\* every root holds its own recognisable bytes
Fill(i) ==
    CASE i % 3 = 1 -> <<72, 105>>
      [] i % 3 = 2 -> <<255, 254, 253>>
      [] OTHER -> <<195, 169>>

ContentAt(i, p) == Fill(i) \o [k \in 1..Len(p) |-> NameByte(p[k])]

\* what the filesystem (or the table compiled into the binary) keeps of a path:
\* modified is the modification time, None where none is recorded; denied says
\* that listing the directory is refused
FileNode(b) == [kind |-> "file", bytes |-> b, modified |-> Some(0)]

DirNode == [kind |-> "dir", bytes |-> <<>>, modified |-> Some(0), denied |-> FALSE]

\* a tree shape: which paths are files and which are directories
TreeShapes ==
    {sh \in [files : SUBSET FilePaths, dirs : SUBSET DirPaths] :
        /\ sh.files \cap sh.dirs = {}
        /\ \A p \in sh.files \cup sh.dirs :
              Len(p) > 1 => SubSeq(p, 1, Len(p) - 1) \in sh.dirs}

TreeOf(i, sh) ==
    [p \in sh.files \cup sh.dirs |->
        IF p \in sh.files THEN FileNode(ContentAt(i, p)) ELSE DirNode]

RootPath(i) == <<"r" \o ToString(i)>>

DiskOf(n, shapes) ==
    LET dom == UNION {{RootPath(i)} \cup
                      {Join(RootPath(i), p) : p \in shapes[i].files \cup shapes[i].dirs}
                      : i \in 1..n}
        idx(q) == CHOOSE i \in 1..n : IsPrefix(RootPath(i), q)
        rel(q) == StripPrefixOr(RootPath(idx(q)), q)
    IN [q \in dom |->
          IF rel(q) = <<>> THEN DirNode ELSE TreeOf(idx(q), shapes[idx(q)])[rel(q)]]

EmbeddedOf(n, shapes, backing) ==
    LET roots == {i \in 1..n : backing[i] = "Embed"}
        idx(r) == CHOOSE i \in roots : RootPath(i) = r
    IN [r \in {RootPath(i) : i \in roots} |-> TreeOf(idx(r), shapes[idx(r)])]

\* std::path::Path::is_file / is_dir
IsFile(q) == q \in DOMAIN disk /\ disk[q].kind = "file"

IsDir(q) == q \in DOMAIN disk /\ disk[q].kind = "dir"

\* std::fs::read_dir returns Ok
ReadDirOk(q) == IsDir(q) /\ ~disk[q].denied

\* the table an embedded handle points into
Table(h) == embedded[h.root]

EmbIsFile(h, p) == p \in DOMAIN Table(h) /\ Table(h)[p].kind = "file"

EmbIsDir(h, p) == p \in DOMAIN Table(h) /\ Table(h)[p].kind = "dir"

----------------------------------------------------------------------------
(* Handles *)

\* InnerFile::Embed(file) / InnerFile::Path { root, path }
EmbedFile(root, path) == [tag |-> "Embed", root |-> root, path |-> path]

PathFile(root, path) == [tag |-> "Path", root |-> root, path |-> path]

\* InnerDir::Embed(dir, root) / InnerDir::Path { root, path }
EmbedDir(root, path) == [tag |-> "Embed", root |-> root, path |-> path]

PathDir(root, path) == [tag |-> "Path", root |-> root, path |-> path]

\* Dir::from_embedded / Dir::from_path
FromEmbedded(root) == EmbedDir(root, <<>>)

FromPath(root) == PathDir(root, root)

\* InnerFile::path handing out the stored path of either variant
FilePathStored(f) == f.path

\* InnerFile::path
FilePath(f) == IF f.tag = "Embed" THEN f.path ELSE StripPrefixOr(f.root, f.path)

\* InnerFile::absolute_path
FileAbsolutePath(f) == f.path

\* InnerDir::path handing out the stored path of either variant
DirPathStored(d) == d.path

\* InnerDir::path
DirPath(d) == IF d.tag = "Embed" THEN d.path ELSE StripPrefixOr(d.root, d.path)

\* DirEntry
FileEntry(f) == [is |-> "File", inner |-> f]

DirEntry(d) == [is |-> "Dir", inner |-> d]

----------------------------------------------------------------------------
(* Dir *)

\* the order in which std::fs::read_dir hands out the names of a directory
ListingOrder == IF listing = "asc" THEN Names ELSE Reverse(Names)

\* Dir::entries
Entries(d) ==
    IF d.tag = "Embed"
    THEN LET child(n) == Join(d.path, <<n>>)
             isF(n) == EmbIsFile(d, child(n))
             isD(n) == EmbIsDir(d, child(n))
             fs == SelectSeq(Names, isF)
             ds == SelectSeq(Names, isD)
         IN [k \in 1..Len(fs) |-> FileEntry(EmbedFile(d.root, child(fs[k])))]
            \o [k \in 1..Len(ds) |-> DirEntry(EmbedDir(d.root, child(ds[k])))]
    ELSE IF ~ReadDirOk(d.path) THEN <<>>
    ELSE LET child(n) == Join(d.path, <<n>>)
             present(n) == IsFile(child(n)) \/ IsDir(child(n))
             ns == SelectSeq(ListingOrder, present)
         IN [k \in 1..Len(ns) |->
               IF IsFile(child(ns[k]))
               THEN FileEntry(PathFile(d.root, child(ns[k])))
               ELSE DirEntry(PathDir(d.root, child(ns[k])))]

\* Dir::get_file handing the name as it is to the embedded directory, whose
\* entries are known by their paths from the root
GetFileUnjoined(d, name) ==
    IF d.tag = "Embed"
    THEN IF name # d.path /\ IsPrefix(d.path, name) /\ EmbIsFile(d, name)
         THEN Some(EmbedFile(d.root, name)) ELSE None
    ELSE LET new_path == Join(d.path, name)
         IN IF IsFile(new_path) THEN Some(PathFile(d.root, new_path)) ELSE None

\* Dir::get_file accepting whatever exists at the name
GetFileExists(d, name) ==
    IF d.tag = "Embed"
    THEN LET p == Join(d.path, name)
         IN IF p \in DOMAIN Table(d)
            THEN Some(EmbedFile(d.root, p)) ELSE None
    ELSE LET new_path == Join(d.path, name)
         IN IF new_path \in DOMAIN disk THEN Some(PathFile(d.root, new_path)) ELSE None

\* Dir::get_file
GetFile(d, name) ==
    IF d.tag = "Embed"
    THEN LET p == Join(d.path, name)
         IN IF p # d.path /\ EmbIsFile(d, p)
            THEN Some(EmbedFile(d.root, p)) ELSE None
    ELSE LET new_path == Join(d.path, name)
         IN IF IsFile(new_path) THEN Some(PathFile(d.root, new_path)) ELSE None

\* Dir::get_dir: as get_file, for the subdirectory at name
GetDir(d, name) ==
    IF d.tag = "Embed"
    THEN LET p == Join(d.path, name)
         IN IF EmbIsDir(d, p) THEN Some(EmbedDir(d.root, p)) ELSE None
    ELSE LET new_path == Join(d.path, name)
         IN IF IsDir(new_path) THEN Some(PathDir(d.root, new_path)) ELSE None

\* InnerDir::into_dynamic keeping only the root the embedding was compiled from
IntoDynamicRoot(d) ==
    IF d.tag = "Embed" THEN PathDir(d.root, d.root) ELSE d

\* InnerDir::into_dynamic
IntoDynamic(d) ==
    IF d.tag = "Embed" THEN PathDir(d.root, Join(d.root, d.path)) ELSE d

----------------------------------------------------------------------------
(* DirSet *)

\* DirSet::get_file handing out a handle made of the bare name when no root matches
RECURSIVE DirSetGetFileFromOrName(_, _, _)
DirSetGetFileFromOrName(ds, k, name) ==
    IF k = 0 THEN Some(PathFile(<<>>, name))
    ELSE LET file == GetFile(ds[k], name)
         IN IF file.tag = "Some" THEN file ELSE DirSetGetFileFromOrName(ds, k - 1, name)

\* DirSet::get_file, the search from root k down to the first
RECURSIVE DirSetGetFileFrom(_, _, _)
DirSetGetFileFrom(ds, k, name) ==
    IF k = 0 THEN None
    ELSE LET file == GetFile(ds[k], name)
         IN IF file.tag = "Some" THEN file ELSE DirSetGetFileFrom(ds, k - 1, name)

\* DirSet::get_file searching the roots first to last
RECURSIVE DirSetGetFileForward(_, _)
DirSetGetFileForward(ds, name) ==
    IF ds = <<>> THEN None
    ELSE LET file == GetFile(Head(ds), name)
         IN IF file.tag = "Some" THEN file ELSE DirSetGetFileForward(Tail(ds), name)

\* DirSet::get_file
DirSetGetFile(ds, name) == DirSetGetFileFrom(ds, Len(ds), name)

\* DirSet::get_dir: the subdirectory of the highest-precedence root that has one
RECURSIVE DirSetGetDirFrom(_, _, _)
DirSetGetDirFrom(ds, k, name) ==
    IF k = 0 THEN None
    ELSE LET dir == GetDir(ds[k], name)
         IN IF dir.tag = "Some" THEN dir ELSE DirSetGetDirFrom(ds, k - 1, name)

DirSetGetDir(ds, name) == DirSetGetDirFrom(ds, Len(ds), name)

\* DirSet::entries taking the roots last to first, as get_file does
DirSetEntriesRev(ds) == Concat([k \in 1..Len(ds) |-> Entries(Reverse(ds)[k])])

\* DirSet::entries
DirSetEntries(ds) == Concat([k \in 1..Len(ds) |-> Entries(ds[k])])

\* VecDeque::push_front of every item, in the order given
RECURSIVE PushFrontAll(_, _)
PushFrontAll(items, queue) ==
    IF items = <<>> THEN queue
    ELSE PushFrontAll(Tail(items), <<Head(items)>> \o queue)

\* VecDeque::push_back of every item, in the order given (Extend)
RECURSIVE PushBackAll(_, _)
PushBackAll(items, queue) ==
    IF items = <<>> THEN queue
    ELSE PushBackAll(Tail(items), Append(queue, Head(items)))

\* what one call of an iterator's closure leaves behind
Pulled(queue, history, expanded, ret) ==
    [queue |-> queue, history |-> history, expanded |-> expanded, ret |-> ret]

\* DirSet::walk, the queue it starts from
DirSetWalkQueue(ds) == PushBackAll([k \in 1..Len(ds) |-> DirEntry(ds[k])], <<>>)

\* DirSet::walk giving up at the first directory that cannot be read
RECURSIVE DirSetWalkPullStrict(_, _)
DirSetWalkPullStrict(queue, expanded) ==
    IF queue = <<>> THEN Pulled(<<>>, {}, expanded, None)
    ELSE LET entry == Head(queue)
         IN IF entry.is = "File"
            THEN Pulled(Tail(queue), {}, expanded, Some(entry.inner))
            ELSE IF entry.inner.tag = "Path" /\ ~ReadDirOk(entry.inner.path)
            THEN Pulled(<<>>, {}, Append(expanded, entry.inner), None)
            ELSE DirSetWalkPullStrict(PushFrontAll(Reverse(Entries(entry.inner)), Tail(queue)),
                                      Append(expanded, entry.inner))

\* DirSet::walk listing the next directory ahead of the pull that needs it
RECURSIVE DirSetWalkPullAhead(_, _)
DirSetWalkPullAhead(queue, expanded) ==
    IF queue = <<>> THEN Pulled(<<>>, {}, expanded, None)
    ELSE LET entry == Head(queue)
             rest == Tail(queue)
         IN IF entry.is = "File"
            THEN IF rest # <<>> /\ Head(rest).is = "Dir"
                 THEN Pulled(PushFrontAll(Reverse(Entries(Head(rest).inner)), Tail(rest)), {},
                             Append(expanded, Head(rest).inner), Some(entry.inner))
                 ELSE Pulled(rest, {}, expanded, Some(entry.inner))
            ELSE DirSetWalkPullAhead(PushFrontAll(Reverse(Entries(entry.inner)), rest),
                                     Append(expanded, entry.inner))

\* DirSet::walk, one call of the closure
RECURSIVE DirSetWalkPull(_, _)
DirSetWalkPull(queue, expanded) ==
    IF queue = <<>> THEN Pulled(<<>>, {}, expanded, None)
    ELSE LET entry == Head(queue)
         IN IF entry.is = "File"
            THEN Pulled(Tail(queue), {}, expanded, Some(entry.inner))
            ELSE DirSetWalkPull(PushFrontAll(Reverse(Entries(entry.inner)), Tail(queue)),
                                Append(expanded, entry.inner))

\* DirSet::walk_override seeding its queue with push_back, as walk does
DirSetWalkOverrideQueueBack(ds) == PushBackAll([k \in 1..Len(ds) |-> DirEntry(ds[k])], <<>>)

\* DirSet::walk_override, the queue it starts from
DirSetWalkOverrideQueue(ds) == PushFrontAll([k \in 1..Len(ds) |-> DirEntry(ds[k])], <<>>)

\* DirSet::walk_override never consulting its history
RECURSIVE DirSetWalkOverridePullAll(_, _, _)
DirSetWalkOverridePullAll(queue, history, expanded) ==
    IF queue = <<>> THEN Pulled(<<>>, history, expanded, None)
    ELSE LET entry == Head(queue)
         IN IF entry.is = "File"
            THEN Pulled(Tail(queue), history \cup {FilePath(entry.inner)}, expanded,
                        Some(entry.inner))
            ELSE DirSetWalkOverridePullAll(PushFrontAll(Entries(entry.inner), Tail(queue)),
                                           history, Append(expanded, entry.inner))

\* DirSet::walk_override keeping directories in its history too: a directory
\* is passed over when one with its relative path was expanded before
RECURSIVE DirSetWalkOverridePullOnce(_, _, _)
DirSetWalkOverridePullOnce(queue, history, expanded) ==
    IF queue = <<>> THEN Pulled(<<>>, history, expanded, None)
    ELSE LET entry == Head(queue)
         IN IF entry.is = "File"
            THEN IF FilePath(entry.inner) \notin history
                 THEN Pulled(Tail(queue), history \cup {FilePath(entry.inner)}, expanded,
                             Some(entry.inner))
                 ELSE DirSetWalkOverridePullOnce(Tail(queue), history, expanded)
            ELSE IF \E k \in 1..Len(expanded) :
                       /\ DirPath(expanded[k]) = DirPath(entry.inner)
                       /\ DirPath(entry.inner) # <<>>
                 THEN DirSetWalkOverridePullOnce(Tail(queue), history, expanded)
                 ELSE DirSetWalkOverridePullOnce(
                          PushFrontAll(Entries(entry.inner), Tail(queue)),
                          history, Append(expanded, entry.inner))

\* DirSet::walk_override, one call of the closure
RECURSIVE DirSetWalkOverridePull(_, _, _)
DirSetWalkOverridePull(queue, history, expanded) ==
    IF queue = <<>> THEN Pulled(<<>>, history, expanded, None)
    ELSE LET entry == Head(queue)
         IN IF entry.is = "File"
            THEN IF FilePath(entry.inner) \notin history
                 THEN Pulled(Tail(queue), history \cup {FilePath(entry.inner)}, expanded,
                             Some(entry.inner))
                 ELSE DirSetWalkOverridePull(Tail(queue), history, expanded)
            ELSE DirSetWalkOverridePull(PushFrontAll(Entries(entry.inner), Tail(queue)),
                                        history, Append(expanded, entry.inner))

\* Dir::walk, the queue it starts from
DirWalkQueue(d) == Entries(d)

\* Dir::walk dropping the directories it meets instead of descending into them
RECURSIVE DirWalkPullShallow(_, _)
DirWalkPullShallow(queue, expanded) ==
    IF queue = <<>> THEN Pulled(<<>>, {}, expanded, None)
    ELSE LET entry == Head(queue)
         IN IF entry.is = "File"
            THEN Pulled(Tail(queue), {}, expanded, Some(entry.inner))
            ELSE DirWalkPullShallow(Tail(queue), expanded)

\* Dir::walk, one call of the closure
RECURSIVE DirWalkPull(_, _)
DirWalkPull(queue, expanded) ==
    IF queue = <<>> THEN Pulled(<<>>, {}, expanded, None)
    ELSE LET entry == Head(queue)
         IN IF entry.is = "File"
            THEN Pulled(Tail(queue), {}, expanded, Some(entry.inner))
            ELSE DirWalkPull(PushBackAll(Entries(entry.inner), Tail(queue)),
                             Append(expanded, entry.inner))

\* d.walk().collect(): next() until it returns None
RECURSIVE DirWalkDrain(_)
DirWalkDrain(queue) ==
    LET p == DirWalkPull(queue, <<>>)
    IN IF p.ret = None THEN <<>> ELSE <<p.ret.v>> \o DirWalkDrain(p.queue)

DirWalkCollect(d) == DirWalkDrain(DirWalkQueue(d))

----------------------------------------------------------------------------
(* File *)

\* PartialEq as #[derive] would write it: variant and every field
FileEqDerived(a, b) == a = b

\* impl PartialEq for InnerFile
FileEq(a, b) == FilePath(a) = FilePath(b)

\* Hash for Path: the components, one after the other
RECURSIVE PathHash(_, _)
PathHash(p, h) ==
    IF p = <<>> THEN h ELSE PathHash(Tail(p), (h * 31 + NameByte(Head(p))) % 65536)

\* impl Hash for InnerFile
FileHash(f) == PathHash(FilePath(f), Len(FilePath(f)))

Ok(v) == [tag |-> "Ok", v |-> v]

Err(kind) == [tag |-> "Err", kind |-> kind]

\* std::str::from_utf8: the width a lead byte announces (0: no lead byte)
Utf8CharWidth(b) ==
    IF b < 128 THEN 1
    ELSE IF b >= 194 /\ b <= 223 THEN 2
    ELSE IF b >= 224 /\ b <= 239 THEN 3
    ELSE IF b >= 240 /\ b <= 244 THEN 4
    ELSE 0

Utf8Cont(b) == b >= 128 /\ b <= 191

\* std::str::from_utf8: is bs, of the width its lead byte announces, one scalar value
Utf8ValidChar(bs) ==
    CASE Len(bs) = 1 -> TRUE
      [] Len(bs) = 2 -> Utf8Cont(bs[2])
      [] Len(bs) = 3 ->
            /\ \/ bs[1] = 224 /\ bs[2] >= 160 /\ bs[2] <= 191
               \/ bs[1] >= 225 /\ bs[1] <= 236 /\ Utf8Cont(bs[2])
               \/ bs[1] = 237 /\ bs[2] >= 128 /\ bs[2] <= 159
               \/ bs[1] >= 238 /\ bs[1] <= 239 /\ Utf8Cont(bs[2])
            /\ Utf8Cont(bs[3])
      [] OTHER ->
            /\ \/ bs[1] = 240 /\ bs[2] >= 144 /\ bs[2] <= 191
               \/ bs[1] >= 241 /\ bs[1] <= 243 /\ Utf8Cont(bs[2])
               \/ bs[1] = 244 /\ bs[2] >= 128 /\ bs[2] <= 143
            /\ Utf8Cont(bs[3])
            /\ Utf8Cont(bs[4])

\* the scalar value a valid sequence encodes
Utf8Scalar(bs) ==
    CASE Len(bs) = 1 -> bs[1]
      [] Len(bs) = 2 -> (bs[1] - 192) * 64 + (bs[2] - 128)
      [] Len(bs) = 3 -> (bs[1] - 224) * 4096 + (bs[2] - 128) * 64 + (bs[3] - 128)
      [] OTHER -> (bs[1] - 240) * 262144 + (bs[2] - 128) * 4096
                    + (bs[3] - 128) * 64 + (bs[4] - 128)

\* String::from_utf8_lossy: U+FFFD for every byte that starts no scalar value
RECURSIVE FromUtf8Lossy(_)
FromUtf8Lossy(bs) ==
    IF bs = <<>> THEN Ok(<<>>)
    ELSE LET n == Utf8CharWidth(bs[1])
         IN IF n = 0 \/ Len(bs) < n \/ ~Utf8ValidChar(SubSeq(bs, 1, IF Len(bs) < n THEN 1 ELSE n))
            THEN Ok(<<65533>> \o FromUtf8Lossy(Tail(bs)).v)
            ELSE Ok(<<Utf8Scalar(SubSeq(bs, 1, n))>>
                    \o FromUtf8Lossy(SubSeq(bs, n + 1, Len(bs))).v)

\* std::str::from_utf8(bytes).map(str::to_owned): a String is its scalar values
RECURSIVE FromUtf8(_)
FromUtf8(bs) ==
    IF bs = <<>> THEN Ok(<<>>)
    ELSE LET n == Utf8CharWidth(bs[1])
         IN IF n = 0 \/ Len(bs) < n THEN Err("InvalidData")
            ELSE IF ~Utf8ValidChar(SubSeq(bs, 1, n)) THEN Err("InvalidData")
            ELSE LET rest == FromUtf8(SubSeq(bs, n + 1, Len(bs)))
                 IN IF rest.tag = "Ok"
                    THEN Ok(<<Utf8Scalar(SubSeq(bs, 1, n))>> \o rest.v)
                    ELSE rest

\* File::read_bytes reading the disk for an embedded file too
ReadBytesLive(f) ==
    LET path == IF f.tag = "Embed" THEN Join(f.root, f.path) ELSE f.path
    IN IF IsFile(path) THEN Ok(disk[path].bytes) ELSE Err("Io")

\* File::read_bytes
ReadBytes(f) ==
    IF f.tag = "Embed" THEN Ok(Table(f)[f.path].bytes)
    ELSE IF IsFile(f.path) THEN Ok(disk[f.path].bytes)
    ELSE Err("Io")

\* File::read_str
ReadStr(f) ==
    IF f.tag = "Embed" THEN FromUtf8(Table(f)[f.path].bytes)
    ELSE IF IsFile(f.path) THEN FromUtf8(disk[f.path].bytes)
    ELSE Err("Io")

\* File::metadata
Metadata(f) ==
    IF f.tag = "Embed"
    THEN IF Table(f)[f.path].modified.tag = "Some"
         THEN Ok([modified |-> Table(f)[f.path].modified.v,
                  size |-> Len(Table(f)[f.path].bytes)])
         ELSE Err("Other")
    ELSE IF f.path \in DOMAIN disk /\ disk[f.path].modified.tag = "Some"
         THEN Ok([modified |-> disk[f.path].modified.v, size |-> Len(disk[f.path].bytes)])
         ELSE Err("Io")

----------------------------------------------------------------------------
(* rust-silos: Silo, SiloSet and their File *)

\* InnerSilo::Embed(EmbedSilo { map, root }) / InnerSilo::Dyn(DynSilo { root })
EmbedSilo(root) == [tag |-> "Embed", root |-> root]

DynSilo(root) == [tag |-> "Dyn", root |-> root]

\* FileKind::Embed(EmbedFile { inner }): the entry of the map of root at rel_path
SiloEmbedFile(root, rel_path) ==
    [tag |-> "Embed", rel_path |-> rel_path, full_path |-> Join(root, rel_path)]

\* FileKind::Dyn(DynFile::new(full_path, rel_path))
SiloDynFile(full_path, rel_path) ==
    [tag |-> "Dyn", rel_path |-> rel_path, full_path |-> full_path]

\* File::path
SiloFilePath(f) == f.rel_path

\* impl PartialEq for File
SiloFileEq(a, b) == SiloFilePath(a) = SiloFilePath(b)

\* impl Hash for File
SiloFileHash(f) == PathHash(SiloFilePath(f), Len(SiloFilePath(f)))

\* the keys of the phf::Map of an embedded silo: the files of its table
SiloMapKeys(s) == {p \in DOMAIN embedded[s.root] : embedded[s.root][p].kind = "file"}

\* Silo::get_file
SiloGetFile(s, path) ==
    IF s.tag = "Embed"
    THEN IF path \in SiloMapKeys(s) THEN Some(SiloEmbedFile(s.root, path)) ELSE None
    ELSE LET pathbuff == Join(s.root, path)
         IN IF IsFile(pathbuff) THEN Some(SiloDynFile(pathbuff, path)) ELSE None

\* the paths of a set in the order of the enumeration
RECURSIVE Listed(_, _)
Listed(prefix, depth) ==
    IF depth = 0 THEN <<>>
    ELSE Concat([k \in 1..Len(ListingOrder) |->
                   <<Join(prefix, <<ListingOrder[k]>>)>>
                   \o Listed(Join(prefix, <<ListingOrder[k]>>), depth - 1)])

\* the longest path of a tree
MaxPathLen == CHOOSE n \in 1..Cardinality(FilePaths \cup DirPaths) :
                 /\ \E p \in FilePaths \cup DirPaths : Len(p) = n
                 /\ \A p \in FilePaths \cup DirPaths : Len(p) <= n

\* walkdir::WalkDir::new(root): depth first, every directory in read_dir order
RECURSIVE WalkDir(_, _)
WalkDir(path, depth) ==
    IF ~IsDir(path) \/ depth = 0 THEN <<>>
    ELSE Concat([k \in 1..Len(ListingOrder) |->
                   LET child == Join(path, <<ListingOrder[k]>>)
                   IN IF child \in DOMAIN disk
                      THEN <<child>> \o WalkDir(child, depth - 1) ELSE <<>>])

\* Silo::iter
SiloIter(s) ==
    IF s.tag = "Embed"
    THEN LET isKey(p) == p \in SiloMapKeys(s)
             keys == SelectSeq(Listed(<<>>, MaxPathLen), isKey)
         IN [k \in 1..Len(keys) |-> SiloEmbedFile(s.root, keys[k])]
    ELSE LET isF(q) == IsFile(q) /\ IsPrefix(s.root, q)
             found == SelectSeq(WalkDir(s.root, MaxPathLen), isF)
         IN [k \in 1..Len(found) |->
               SiloDynFile(found[k], SubSeq(found[k], Len(s.root) + 1, Len(found[k])))]

\* SiloSet::get_file
RECURSIVE SiloSetGetFileFrom(_, _, _)
SiloSetGetFileFrom(ss, k, name) ==
    IF k = 0 THEN None
    ELSE LET file == SiloGetFile(ss[k], name)
         IN IF file.tag = "Some" THEN file ELSE SiloSetGetFileFrom(ss, k - 1, name)

SiloSetGetFile(ss, name) == SiloSetGetFileFrom(ss, Len(ss), name)

\* SiloSet::iter
SiloSetIter(ss) == Concat([k \in 1..Len(ss) |-> SiloIter(Reverse(ss)[k])])

\* SiloSet::iter_override, one call of next() of the filter
RECURSIVE SiloIterOverridePull(_, _)
SiloIterOverridePull(queue, history) ==
    IF queue = <<>> THEN Pulled(<<>>, history, <<>>, None)
    ELSE LET file == Head(queue)
         IN IF SiloFilePath(file) \notin history
            THEN Pulled(Tail(queue), history \cup {SiloFilePath(file)}, <<>>, Some(file))
            ELSE SiloIterOverridePull(Tail(queue), history)

----------------------------------------------------------------------------
(* Iterators *)

NoIter == [started |-> FALSE]

Unpulled == [tag |-> "Unpulled"]

\* a freshly constructed iterator: nothing pulled yet
NewIter(queue) ==
    [started |-> TRUE, queue |-> queue, history |-> {}, expanded |-> <<>>,
     out |-> <<>>, last |-> Unpulled]

\* the iterator after one call of next() that left p behind
AfterPull(it, p) ==
    [started |-> TRUE, queue |-> p.queue, history |-> p.history, expanded |-> p.expanded,
     out |-> IF p.ret.tag = "Some" THEN Append(it.out, p.ret.v) ELSE it.out,
     last |-> p.ret]

\* next() has returned None
Exhausted(it) == it.started /\ it.last = None

\* the directory handles a caller can hold: the roots and what entries() hands out
RECURSIVE SubDirs(_, _)
SubDirs(d, depth) ==
    IF depth = 0 THEN {d}
    ELSE {d} \cup UNION {SubDirs(e.inner, depth - 1) :
                           e \in {x \in Range(Entries(d)) : x.is = "Dir"}}

DirHandles == UNION {SubDirs(dirs[k], MaxPathLen) : k \in 1..Len(dirs)}

\* the roots: n trees on disk, some of them also compiled into the binary
Roots(n, shapes, backing) ==
    /\ disk = DiskOf(n, shapes)
    /\ embedded = EmbeddedOf(n, shapes, backing)
    /\ dirs = [i \in 1..n |->
                 IF backing[i] = "Embed" THEN FromEmbedded(RootPath(i))
                 ELSE FromPath(RootPath(i))]
    /\ silos = [i \in 1..n |->
                  IF backing[i] = "Embed" THEN EmbedSilo(RootPath(i))
                  ELSE DynSilo(RootPath(i))]

Idle ==
    /\ w = NoIter
    /\ wo = NoIter
    /\ dw = NoIter
    /\ si = NoIter
    /\ res = [op |-> "none"]
    /\ t1 = NoIter
    /\ t2 = NoIter

Init ==
    /\ listing \in {"asc", "desc"}
    /\ \E n \in 0..MaxRoots :
         \E shapes \in [1..n -> TreeShapes], backing \in [1..n -> {"Embed", "Path"}] :
            Roots(n, shapes, backing)
    /\ Idle

\* The caller drives one traversal at a time: the traversals of the DirSet one
\* after the other, a Dir::walk alone or after a walk, a SiloSet iteration alone
\* or after a walk_override.
Running(it) == it.started /\ ~Exhausted(it)

NoLookup == res.op = "none"

\* a lookup changes nothing it reads: each one is made by a caller that holds no
\* iterator and has made no lookup yet
NoTraversal == NoLookup /\ ~w.started /\ ~wo.started /\ ~dw.started /\ ~si.started

\* the sets a caller builds from the roots: DirSet::new(dirs), and with the list reversed
DirSets == {dirs, Reverse(dirs)}

SiloSets == {silos, Reverse(silos)}

\* the files a caller can hold: what get_file of a directory handle hands out
FileOf(d, name) == GetFile(d, name).v

HasFile(d, name) == GetFile(d, name).tag = "Some"

\* DirSet::new(ds).get_file(name)
CallGetFile(ds, name) ==
    /\ NoTraversal
    /\ res' = [op |-> "DirSet::get_file", set |-> ds, name |-> name,
               ret |-> DirSetGetFile(ds, name)]
    /\ UNCHANGED <<disk, embedded, listing, dirs, silos, w, wo, dw, si, t1, t2>>

\* SiloSet::new(ss).get_file(name)
CallSiloGetFile(ss, name) ==
    /\ NoTraversal
    /\ res' = [op |-> "SiloSet::get_file", set |-> ss, name |-> name,
               ret |-> SiloSetGetFile(ss, name)]
    /\ UNCHANGED <<disk, embedded, listing, dirs, silos, w, wo, dw, si, t1, t2>>

\* set.entries()
CallEntries ==
    /\ NoTraversal
    /\ res' = [op |-> "DirSet::entries", ret |-> DirSetEntries(dirs)]
    /\ UNCHANGED <<disk, embedded, listing, dirs, silos, w, wo, dw, si, t1, t2>>

\* dirs[i].get_dir(name)
CallGetDir(i, name) ==
    /\ NoTraversal
    /\ res' = [op |-> "Dir::get_dir", i |-> i, name |-> name,
               ret |-> GetDir(dirs[i], name)]
    /\ UNCHANGED <<disk, embedded, listing, dirs, silos, w, wo, dw, si, t1, t2>>

\* set.get_dir(name)
CallDirSetGetDir(name) ==
    /\ NoTraversal
    /\ res' = [op |-> "DirSet::get_dir", name |-> name,
               ret |-> DirSetGetDir(dirs, name)]
    /\ UNCHANGED <<disk, embedded, listing, dirs, silos, w, wo, dw, si, t1, t2>>

\* a == b, with the hashes of both, for a = dirs[i].get_file(na), b = dirs[j].get_file(nb)
CallFileEq(i, na, j, nb) ==
    /\ NoTraversal
    /\ HasFile(dirs[i], na) /\ HasFile(dirs[j], nb)
    /\ LET a == FileOf(dirs[i], na)
           b == FileOf(dirs[j], nb)
       IN res' = [op |-> "File::eq", i |-> i, na |-> na, j |-> j, nb |-> nb,
                  ret |-> FileEq(a, b), ha |-> FileHash(a), hb |-> FileHash(b)]
    /\ UNCHANGED <<disk, embedded, listing, dirs, silos, w, wo, dw, si, t1, t2>>

\* the same for the File of rust-silos
CallSiloFileEq(i, na, j, nb) ==
    /\ NoTraversal
    /\ SiloGetFile(silos[i], na).tag = "Some" /\ SiloGetFile(silos[j], nb).tag = "Some"
    /\ LET a == SiloGetFile(silos[i], na).v
           b == SiloGetFile(silos[j], nb).v
       IN res' = [op |-> "silos::File::eq", i |-> i, na |-> na, j |-> j, nb |-> nb,
                  ret |-> SiloFileEq(a, b), ha |-> SiloFileHash(a), hb |-> SiloFileHash(b)]
    /\ UNCHANGED <<disk, embedded, listing, dirs, silos, w, wo, dw, si, t1, t2>>

\* let it = set.walk()
CallWalk ==
    /\ NoLookup /\ ~dw.started /\ ~si.started /\ ~Running(wo)
    /\ w' = NewIter(DirSetWalkQueue(dirs))
    /\ UNCHANGED <<disk, embedded, listing, dirs, silos, wo, dw, si, res, t1, t2>>

\* it.next() on the iterator of DirSet::walk
WalkNext ==
    /\ w.started
    /\ w' = AfterPull(w, DirSetWalkPull(w.queue, w.expanded))
    /\ UNCHANGED <<disk, embedded, listing, dirs, silos, wo, dw, si, res, t1, t2>>

\* let it = set.walk_override()
CallWalkOverride ==
    /\ NoLookup /\ ~dw.started /\ ~si.started /\ ~Running(w)
    /\ wo' = NewIter(DirSetWalkOverrideQueue(dirs))
    /\ UNCHANGED <<disk, embedded, listing, dirs, silos, w, dw, si, res, t1, t2>>

\* it.next() on the iterator of DirSet::walk_override
WalkOverrideNext ==
    /\ wo.started
    /\ wo' = AfterPull(wo, DirSetWalkOverridePull(wo.queue, wo.history, wo.expanded))
    /\ UNCHANGED <<disk, embedded, listing, dirs, silos, w, dw, si, res, t1, t2>>

\* let it = d.walk()
CallDirWalk(d) ==
    /\ NoLookup /\ ~Running(w) /\ ~wo.started /\ ~si.started
    /\ dw' = [dir |-> d] @@ NewIter(DirWalkQueue(d))
    /\ UNCHANGED <<disk, embedded, listing, dirs, silos, w, wo, si, res, t1, t2>>

\* it.next() on the iterator of Dir::walk
DirWalkNext ==
    /\ dw.started
    /\ dw' = [dir |-> dw.dir] @@ AfterPull(dw, DirWalkPull(dw.queue, dw.expanded))
    /\ UNCHANGED <<disk, embedded, listing, dirs, silos, w, wo, si, res, t1, t2>>

\* let it = silos.iter_override()
CallIterOverride ==
    /\ NoLookup /\ ~w.started /\ ~Running(wo) /\ ~dw.started
    /\ si' = NewIter(SiloSetIter(silos))
    /\ UNCHANGED <<disk, embedded, listing, dirs, silos, w, wo, dw, res, t1, t2>>

\* it.next() on the iterator of SiloSet::iter_override
IterOverrideNext ==
    /\ si.started
    /\ si' = AfterPull(si, SiloIterOverridePull(si.queue, si.history))
    /\ UNCHANGED <<disk, embedded, listing, dirs, silos, w, wo, dw, res, t1, t2>>

Next ==
    \/ NoLookup /\ \E ds \in DirSets, name \in LookupNames : CallGetFile(ds, name)
    \/ NoLookup /\ \E ss \in SiloSets, name \in LookupNames : CallSiloGetFile(ss, name)
    \/ CallEntries
    \/ NoLookup /\ \E i \in 1..Len(dirs), name \in DirNames : CallGetDir(i, name)
    \/ NoLookup /\ \E name \in DirNames : CallDirSetGetDir(name)
    \/ NoLookup /\ \E i, j \in 1..Len(dirs), na, nb \in LookupNames : CallFileEq(i, na, j, nb)
    \/ NoLookup /\ \E i, j \in 1..Len(silos), na, nb \in LookupNames : CallSiloFileEq(i, na, j, nb)
    \/ CallWalk
    \/ WalkNext
    \/ CallWalkOverride
    \/ WalkOverrideNext
    \/ NoLookup /\ \E d \in DirHandles : CallDirWalk(d)
    \/ DirWalkNext
    \/ CallIterOverride
    \/ IterOverrideNext

Spec == Init /\ [][Next]_vars

----------------------------------------------------------------------------
(* Reading: one root holding one file of arbitrary bytes *)

ReadName == <<"a">>

InitRead ==
    /\ listing = "asc"
    /\ \E bytes \in ByteSeqs(MaxContentLen), backing \in {"Embed", "Path"} :
         LET root == RootPath(1)
             tree == [p \in {ReadName} |-> FileNode(bytes)]
         IN /\ disk = [q \in {root, Join(root, ReadName)} |->
                          IF q = root THEN DirNode ELSE FileNode(bytes)]
            /\ embedded = IF backing = "Embed" THEN [r \in {root} |-> tree]
                          ELSE [r \in {} |-> tree]
            /\ dirs = <<IF backing = "Embed" THEN FromEmbedded(root) ELSE FromPath(root)>>
            /\ silos = <<IF backing = "Embed" THEN EmbedSilo(root) ELSE DynSilo(root)>>
    /\ Idle

\* what the caller has read so far through the handle dirs[1].get_file(name)
Reads(name) ==
    IF res.op = "File::read" THEN res
    ELSE [op |-> "File::read", name |-> name, read_bytes |-> Unpulled, read_str |-> Unpulled]

\* dirs[1].get_file(name).unwrap().read_bytes()
CallReadBytes(name) ==
    /\ HasFile(dirs[1], name)
    /\ Reads(name).name = name
    /\ Reads(name).read_bytes = Unpulled
    /\ res' = [Reads(name) EXCEPT !.read_bytes = ReadBytes(FileOf(dirs[1], name))]
    /\ UNCHANGED <<disk, embedded, listing, dirs, silos, w, wo, dw, si, t1, t2>>

\* dirs[1].get_file(name).unwrap().read_str()
CallReadStr(name) ==
    /\ HasFile(dirs[1], name)
    /\ Reads(name).name = name
    /\ Reads(name).read_str = Unpulled
    /\ res' = [Reads(name) EXCEPT !.read_str = ReadStr(FileOf(dirs[1], name))]
    /\ UNCHANGED <<disk, embedded, listing, dirs, silos, w, wo, dw, si, t1, t2>>

NextRead ==
    \/ \E name \in LookupNames : CallReadBytes(name)
    \/ \E name \in LookupNames : CallReadStr(name)

SpecRead == InitRead /\ [][NextRead]_vars

----------------------------------------------------------------------------
(* Directory handles on their own: lookups and the conversion to the disk *)

\* d.get_file(name).map(|f| f.read_bytes())
Fetch(d, name) ==
    IF GetFile(d, name).tag = "Some" THEN Some(ReadBytes(GetFile(d, name).v)) ELSE None

\* let dynamic = d.clone().into_dynamic(); both walked, and every path that
\* either walk yields looked up in both, as it is and relative to d
CallIntoDynamic(d) ==
    /\ NoTraversal
    /\ d.tag = "Embed"
    /\ LET dynamic == IntoDynamic(d)
           walk == DirWalkCollect(d)
           dyn_walk == DirWalkCollect(dynamic)
           paths == {FilePath(walk[k]) : k \in 1..Len(walk)}
                       \cup {FilePath(dyn_walk[k]) : k \in 1..Len(dyn_walk)}
       IN res' = [op |-> "Dir::into_dynamic", dir |-> d, ret |-> dynamic,
                  walk |-> walk, dyn_walk |-> dyn_walk,
                  by_path |-> [p \in paths |->
                                 [emb |-> Fetch(d, p), dyn |-> Fetch(dynamic, p)]],
                  by_name |-> [p \in paths |->
                                 [emb |-> Fetch(d, StripPrefixOr(DirPath(d), p)),
                                  dyn |-> Fetch(dynamic, StripPrefixOr(DirPath(dynamic), p))]]]
    /\ UNCHANGED <<disk, embedded, listing, dirs, silos, w, wo, dw, si, t1, t2>>

\* d.get_file(name)
CallDirGetFile(d, name) ==
    /\ NoTraversal
    /\ res' = [op |-> "Dir::get_file", dir |-> d, name |-> name, ret |-> GetFile(d, name)]
    /\ UNCHANGED <<disk, embedded, listing, dirs, silos, w, wo, dw, si, t1, t2>>

NextDir ==
    \/ \E d \in DirHandles : CallIntoDynamic(d)
    \/ \E d \in DirHandles, name \in LookupNames : CallDirGetFile(d, name)
    \/ \E ds \in DirSets, name \in LookupNames : CallGetFile(ds, name)

SpecDir == Init /\ [][NextDir]_vars

----------------------------------------------------------------------------
(* The traversals of a DirSet alone, pull by pull *)

NextLazy ==
    \/ CallWalk
    \/ WalkNext
    \/ CallWalkOverride
    \/ WalkOverrideNext

SpecLazy == Init /\ [][NextLazy]_vars

----------------------------------------------------------------------------
(* Two traversals of one DirSet, their pulls interleaved *)

Kinds == {"walk", "walk_override"}

\* set.walk() or set.walk_override(): a new queue and a new history each call
Fresh(kind, ds) ==
    [kind |-> kind] @@
    NewIter(IF kind = "walk" THEN DirSetWalkQueue(ds) ELSE DirSetWalkOverrideQueue(ds))

\* one call of the closure the iterator owns, on what the closure captured
PullOn(it, queue, history) ==
    [kind |-> it.kind] @@
    AfterPull(it, IF it.kind = "walk" THEN DirSetWalkPull(queue, it.expanded)
                  ELSE DirSetWalkOverridePull(queue, history, it.expanded))

\* set.walk().collect(): next() until it returns None
RECURSIVE DirSetWalkDrain(_)
DirSetWalkDrain(queue) ==
    LET p == DirSetWalkPull(queue, <<>>)
    IN IF p.ret = None THEN <<>> ELSE <<p.ret.v>> \o DirSetWalkDrain(p.queue)

\* set.walk_override().collect()
RECURSIVE DirSetWalkOverrideDrain(_, _)
DirSetWalkOverrideDrain(queue, history) ==
    LET p == DirSetWalkOverridePull(queue, history, <<>>)
    IN IF p.ret = None THEN <<>>
       ELSE <<p.ret.v>> \o DirSetWalkOverrideDrain(p.queue, p.history)

DirSetWalkCollect(ds) == DirSetWalkDrain(DirSetWalkQueue(ds))

DirSetWalkOverrideCollect(ds) == DirSetWalkOverrideDrain(DirSetWalkOverrideQueue(ds), {})

\* let first = set.walk() / set.walk_override()
CallFirst(kind) ==
    /\ NoTraversal
    /\ ~t1.started
    /\ t1' = Fresh(kind, dirs)
    /\ UNCHANGED <<disk, embedded, listing, dirs, silos, w, wo, dw, si, res, t2>>

\* first.next()
FirstNext ==
    /\ t1.started
    /\ ~Exhausted(t1)
    /\ t1' = PullOn(t1, t1.queue, t1.history)
    /\ UNCHANGED <<disk, embedded, listing, dirs, silos, w, wo, dw, si, res, t2>>

\* a second traversal that carries on from what the first has left
CallSecondResumed(kind) ==
    /\ t1.started
    /\ ~t2.started
    /\ t2' = [Fresh(kind, dirs) EXCEPT !.queue = IF kind = t1.kind THEN t1.queue ELSE @,
                                       !.history = IF kind = t1.kind THEN t1.history ELSE @]
    /\ UNCHANGED <<disk, embedded, listing, dirs, silos, w, wo, dw, si, res, t1>>

\* let second = set.walk() / set.walk_override(), however far first has got
CallSecond(kind) ==
    /\ t1.started
    /\ ~t2.started
    /\ t2' = Fresh(kind, dirs)
    /\ UNCHANGED <<disk, embedded, listing, dirs, silos, w, wo, dw, si, res, t1>>

\* second.next() with a history that both traversals write to
SecondNextSharedHistory ==
    /\ t2.started
    /\ ~Exhausted(t2)
    /\ t2' = PullOn(t2, t2.queue, t1.history \cup t2.history)
    /\ UNCHANGED <<disk, embedded, listing, dirs, silos, w, wo, dw, si, res, t1>>

\* second.next()
SecondNext ==
    /\ t2.started
    /\ ~Exhausted(t2)
    /\ t2' = PullOn(t2, t2.queue, t2.history)
    /\ UNCHANGED <<disk, embedded, listing, dirs, silos, w, wo, dw, si, res, t1>>

NextPair ==
    \/ \E kind \in Kinds : CallFirst(kind)
    \/ FirstNext
    \/ \E kind \in Kinds : CallSecond(kind)
    \/ SecondNext

SpecPair == Init /\ [][NextPair]_vars

----------------------------------------------------------------------------
(* A file handle kept while the file it names is rewritten or deleted *)

\* the table of a binary compiled without modification times
Untimed(tree) == [p \in DOMAIN tree |-> [tree[p] EXCEPT !.modified = None]]

InitStale ==
    /\ listing = "asc"
    /\ \E n \in 1..MaxRoots :
         \E shapes \in [1..n -> TreeShapes], backing \in [1..n -> {"Embed", "Path"}],
            timed \in BOOLEAN :
            /\ disk = DiskOf(n, shapes)
            /\ embedded = IF timed THEN EmbeddedOf(n, shapes, backing)
                          ELSE [r \in DOMAIN EmbeddedOf(n, shapes, backing) |->
                                  Untimed(EmbeddedOf(n, shapes, backing)[r])]
            /\ dirs = [i \in 1..n |->
                         IF backing[i] = "Embed" THEN FromEmbedded(RootPath(i))
                         ELSE FromPath(RootPath(i))]
            /\ silos = [i \in 1..n |->
                          IF backing[i] = "Embed" THEN EmbedSilo(RootPath(i))
                          ELSE DynSilo(RootPath(i))]
    /\ Idle

\* f.read_bytes(), f.read_str() and f.metadata() of one handle
Probe(f) == [read_bytes |-> ReadBytes(f), read_str |-> ReadStr(f), metadata |-> Metadata(f)]

\* the place on disk that a handle was made from
Source(f) == IF f.tag = "Embed" THEN Join(f.root, f.path) ELSE FileAbsolutePath(f)

\* let f = set.get_file(name).unwrap(), read at once
CaptureByGetFile(name) ==
    /\ NoTraversal
    /\ DirSetGetFile(dirs, name).tag = "Some"
    /\ res' = [op |-> "capture", file |-> DirSetGetFile(dirs, name).v,
               before |-> Probe(DirSetGetFile(dirs, name).v), after |-> Unpulled,
               at |-> Unpulled]
    /\ UNCHANGED <<disk, embedded, listing, dirs, silos, w, wo, dw, si, t1, t2>>

\* let f = set.walk().nth(k - 1).unwrap(), read at once
CaptureByWalk(k) ==
    /\ NoTraversal
    /\ k \in 1..Len(DirSetWalkCollect(dirs))
    /\ res' = [op |-> "capture", file |-> DirSetWalkCollect(dirs)[k],
               before |-> Probe(DirSetWalkCollect(dirs)[k]), after |-> Unpulled,
               at |-> Unpulled]
    /\ UNCHANGED <<disk, embedded, listing, dirs, silos, w, wo, dw, si, t1, t2>>

\* another process rewrites the file the handle was made from: std::fs::write
Rewrite ==
    /\ res.op \in {"capture", "reread"}
    /\ IsFile(Source(res.file))
    /\ disk[Source(res.file)].modified = Some(0)
    /\ disk' = [disk EXCEPT ![Source(res.file)] =
                  [@ EXCEPT !.bytes = <<33>> \o @, !.modified = Some(1)]]
    /\ UNCHANGED <<embedded, listing, dirs, silos, w, wo, dw, si, res, t1, t2>>

\* another process deletes it: std::fs::remove_file
RemoveFile ==
    /\ res.op \in {"capture", "reread"}
    /\ IsFile(Source(res.file))
    /\ disk' = [q \in DOMAIN disk \ {Source(res.file)} |-> disk[q]]
    /\ UNCHANGED <<embedded, listing, dirs, silos, w, wo, dw, si, res, t1, t2>>

\* f.read_bytes(), f.read_str(), f.metadata() again, through the handle kept
\* (at: what the disk holds at the handle's source as the calls are made)
Reread ==
    /\ res.op \in {"capture", "reread"}
    /\ res' = [res EXCEPT !.op = "reread", !.after = Probe(res.file),
                          !.at = IF Source(res.file) \in DOMAIN disk
                                 THEN Some(disk[Source(res.file)]) ELSE None]
    /\ UNCHANGED <<disk, embedded, listing, dirs, silos, w, wo, dw, si, t1, t2>>

NextStale ==
    \/ \E name \in LookupNames : CaptureByGetFile(name)
    \/ \E k \in 1..(MaxRoots * Cardinality(FilePaths)) : CaptureByWalk(k)
    \/ Rewrite
    \/ RemoveFile
    \/ Reread

SpecStale == InitStale /\ [][NextStale]_vars

----------------------------------------------------------------------------
(* Directories removed or made unreadable while they are listed and walked *)

\* the directories on disk under the filesystem-backed roots
LiveDirs ==
    {q \in DOMAIN disk :
        /\ IsDir(q)
        /\ \E k \in 1..Len(dirs) : dirs[k].tag = "Path" /\ IsPrefix(dirs[k].root, q)}

\* the directory handles a caller can hold: those handed out by entries(), and
\* Dir::from_path of any path, which is not looked at until it is listed
HeldDirs ==
    DirHandles \cup
    {FromPath(Join(RootPath(i), p)) : i \in 1..Len(dirs), p \in DirPaths \cup FilePaths}

\* d.entries() (readable: whether read_dir of a filesystem-backed d succeeds
\* as the call is made)
CallDirEntries(d) ==
    /\ NoTraversal
    /\ res' = [op |-> "Dir::entries", dir |-> d, ret |-> Entries(d),
               readable |-> d.tag = "Embed" \/ ReadDirOk(d.path)]
    /\ UNCHANGED <<disk, embedded, listing, dirs, silos, w, wo, dw, si, t1, t2>>

\* the caller has not finished: it has made no listing yet and no traversal
\* of its has ended
Unfinished == NoLookup /\ ~Exhausted(w) /\ ~Exhausted(wo)

\* another process removes a directory and all it holds: std::fs::remove_dir_all
RemoveDir(q) ==
    /\ Unfinished
    /\ q \in LiveDirs
    /\ disk' = [r \in {x \in DOMAIN disk : ~IsPrefix(q, x)} |-> disk[r]]
    /\ UNCHANGED <<embedded, listing, dirs, silos, w, wo, dw, si, res, t1, t2>>

\* another process takes away the permission to list a directory, of one
\* directory at most
DenyDir(q) ==
    /\ Unfinished
    /\ q \in LiveDirs
    /\ \A r \in LiveDirs : ~disk[r].denied
    /\ disk' = [disk EXCEPT ![q].denied = TRUE]
    /\ UNCHANGED <<embedded, listing, dirs, silos, w, wo, dw, si, res, t1, t2>>

NextRacy ==
    \/ \E d \in HeldDirs : CallDirEntries(d)
    \/ ~wo.started /\ CallWalk
    \/ WalkNext
    \/ ~w.started /\ CallWalkOverride
    \/ WalkOverrideNext
    \/ \E q \in DOMAIN disk : RemoveDir(q)
    \/ \E q \in DOMAIN disk : DenyDir(q)

SpecRacy == Init /\ [][NextRacy]_vars

----------------------------------------------------------------------------
(* Calls on one DirSet and on a file handle from it, one after the other *)

\* the handle the caller keeps (held, with the name it was looked up by) and
\* whether a call has failed so far
Kept == IF res.op = "none" THEN [held |-> None, name |-> <<>>, failed |-> FALSE]
        ELSE [held |-> res.held, name |-> res.name, failed |-> res.failed]

Returned(op, ret) ==
    [op |-> op, ret |-> ret, held |-> Kept.held, name |-> Kept.name,
     failed |-> Kept.failed \/ ret.tag = "Err"]

\* let f = set.get_file(name), kept
FrameGetFile(name) ==
    /\ res' = [op |-> "get_file", ret |-> DirSetGetFile(dirs, name),
               held |-> DirSetGetFile(dirs, name), name |-> name, failed |-> Kept.failed]
    /\ UNCHANGED <<disk, embedded, listing, dirs, silos, w, wo, dw, si, t1, t2>>

\* set.entries()
FrameEntries ==
    /\ res' = Returned("entries", Ok(DirSetEntries(dirs)))
    /\ UNCHANGED <<disk, embedded, listing, dirs, silos, w, wo, dw, si, t1, t2>>

\* a walk() that takes the roots out of the set instead of cloning them
FrameWalkTaking ==
    /\ res' = Returned("walk", Ok(DirSetWalkCollect(dirs)))
    /\ dirs' = <<>>
    /\ UNCHANGED <<disk, embedded, listing, silos, w, wo, dw, si, t1, t2>>

\* set.walk().collect()
FrameWalk ==
    /\ res' = Returned("walk", Ok(DirSetWalkCollect(dirs)))
    /\ UNCHANGED <<disk, embedded, listing, dirs, silos, w, wo, dw, si, t1, t2>>

\* set.walk_override().collect()
FrameWalkOverride ==
    /\ res' = Returned("walk_override", Ok(DirSetWalkOverrideCollect(dirs)))
    /\ UNCHANGED <<disk, embedded, listing, dirs, silos, w, wo, dw, si, t1, t2>>

\* f.read_bytes()
FrameReadBytes ==
    /\ Kept.held # None
    /\ res' = Returned("read_bytes", ReadBytes(Kept.held.v))
    /\ UNCHANGED <<disk, embedded, listing, dirs, silos, w, wo, dw, si, t1, t2>>

\* f.read_str()
FrameReadStr ==
    /\ Kept.held # None
    /\ res' = Returned("read_str", ReadStr(Kept.held.v))
    /\ UNCHANGED <<disk, embedded, listing, dirs, silos, w, wo, dw, si, t1, t2>>

\* f.metadata()
FrameMetadata ==
    /\ Kept.held # None
    /\ res' = Returned("metadata", Metadata(Kept.held.v))
    /\ UNCHANGED <<disk, embedded, listing, dirs, silos, w, wo, dw, si, t1, t2>>

NextFrame ==
    \/ \E name \in LookupNames : FrameGetFile(name)
    \/ FrameEntries
    \/ FrameWalk
    \/ FrameWalkOverride
    \/ FrameReadBytes
    \/ FrameReadStr
    \/ FrameMetadata

SpecFrame == InitStale /\ [][NextFrame]_vars

----------------------------------------------------------------------------
(* Comparing and hashing directory handles and sets of them *)

\* PartialEq for InnerDir as #[derive] would write it: variant and every field
DirEqDerived(a, b) == a = b

\* impl PartialEq for InnerDir
DirEq(a, b) == DirPath(a) = DirPath(b)

\* impl Hash for InnerDir
DirHash(d) == PathHash(DirPath(d), Len(DirPath(d)))

\* #[derive(PartialEq)] of DirSet: Vec<Dir> == Vec<Dir>
DirSetEq(x, y) == Len(x) = Len(y) /\ \A k \in 1..Len(x) : DirEq(x[k], y[k])

\* #[derive(Hash)] of DirSet: the length of the Vec, then each Dir
RECURSIVE HashDirs(_, _)
HashDirs(ds, h) ==
    IF ds = <<>> THEN h ELSE HashDirs(Tail(ds), (h * 31 + DirHash(Head(ds))) % 65536)

DirSetHash(ds) == HashDirs(ds, Len(ds))

\* the handles compared: the roots, what entries() hands out, and their
\* into_dynamic()
EqHandles == DirHandles \cup {IntoDynamic(d) : d \in DirHandles}

\* the lists of roots sets are made of: the first roots, or the last ones
\* backwards
RootLists == {SubSeq(ds, 1, n) : ds \in DirSets, n \in 0..Len(dirs)}

\* a == b, with the hashes of both
CallDirEq(a, b) ==
    /\ NoTraversal
    /\ res' = [op |-> "Dir::eq", a |-> a, b |-> b, ret |-> DirEq(a, b),
               ha |-> DirHash(a), hb |-> DirHash(b)]
    /\ UNCHANGED <<disk, embedded, listing, dirs, silos, w, wo, dw, si, t1, t2>>

\* DirSet::new(x) == DirSet::new(y), with the hashes of both
CallDirSetEq(x, y) ==
    /\ NoTraversal
    /\ res' = [op |-> "DirSet::eq", x |-> x, y |-> y, ret |-> DirSetEq(x, y),
               hx |-> DirSetHash(x), hy |-> DirSetHash(y)]
    /\ UNCHANGED <<disk, embedded, listing, dirs, silos, w, wo, dw, si, t1, t2>>

NextEq ==
    \/ \E a \in DirHandles, b \in EqHandles : CallDirEq(a, b)
    \/ \E x, y \in RootLists : CallDirSetEq(x, y)

SpecEq == Init /\ [][NextEq]_vars

----------------------------------------------------------------------------
(* One traversal pulled by a consumer that goes on calling next() *)

\* what next() has just returned (spent: the traversal had already returned
\* None before this call)
NextReturned(it, ret) == [op |-> "Iterator::next", ret |-> ret, spent |-> Exhausted(it)]

\* let it = set.walk()
StartWalk ==
    /\ NoTraversal
    /\ w' = NewIter(DirSetWalkQueue(dirs))
    /\ UNCHANGED <<disk, embedded, listing, dirs, silos, wo, dw, si, res, t1, t2>>

\* let it = set.walk_override()
StartWalkOverride ==
    /\ NoTraversal
    /\ wo' = NewIter(DirSetWalkOverrideQueue(dirs))
    /\ UNCHANGED <<disk, embedded, listing, dirs, silos, w, dw, si, res, t1, t2>>

\* let it = d.walk()
StartDirWalk(d) ==
    /\ NoTraversal
    /\ dw' = [dir |-> d] @@ NewIter(DirWalkQueue(d))
    /\ UNCHANGED <<disk, embedded, listing, dirs, silos, w, wo, si, res, t1, t2>>

\* a walk() whose closure fills its queue again once it has run dry
PullWalkRefilling ==
    /\ w.started
    /\ LET queue == IF Exhausted(w) THEN DirSetWalkQueue(dirs) ELSE w.queue
           p == DirSetWalkPull(queue, w.expanded)
       IN /\ w' = AfterPull(w, p)
          /\ res' = NextReturned(w, p.ret)
    /\ UNCHANGED <<disk, embedded, listing, dirs, silos, wo, dw, si, t1, t2>>

\* it.next() on the iterator of DirSet::walk
PullWalk ==
    /\ w.started
    /\ LET p == DirSetWalkPull(w.queue, w.expanded)
       IN /\ w' = AfterPull(w, p)
          /\ res' = NextReturned(w, p.ret)
    /\ UNCHANGED <<disk, embedded, listing, dirs, silos, wo, dw, si, t1, t2>>

\* it.next() on the iterator of DirSet::walk_override
PullWalkOverride ==
    /\ wo.started
    /\ LET p == DirSetWalkOverridePull(wo.queue, wo.history, wo.expanded)
       IN /\ wo' = AfterPull(wo, p)
          /\ res' = NextReturned(wo, p.ret)
    /\ UNCHANGED <<disk, embedded, listing, dirs, silos, w, dw, si, t1, t2>>

\* it.next() on the iterator of Dir::walk
PullDirWalk ==
    /\ dw.started
    /\ LET p == DirWalkPull(dw.queue, dw.expanded)
       IN /\ dw' = [dir |-> dw.dir] @@ AfterPull(dw, p)
          /\ res' = NextReturned(dw, p.ret)
    /\ UNCHANGED <<disk, embedded, listing, dirs, silos, w, wo, si, t1, t2>>

NextDrain ==
    \/ StartWalk
    \/ StartWalkOverride
    \/ \E d \in DirHandles : StartDirWalk(d)
    \/ PullWalk
    \/ PullWalkOverride
    \/ PullDirWalk

\* a call of next() on it would change something: it is held and has not yet
\* answered None to a call made after it ran dry (ENABLED <<Pull..>>_vars)
Pullable(it) == it.started /\ ~(Exhausted(it) /\ res = NextReturned(it, None))

\* for f in it { .. } and it.collect() call next() until it returns None:
\* weak fairness of the pull, its enabling condition written out as Pullable
WeaklyFairPullWalk == []<>(~Pullable(w)) \/ []<><<PullWalk>>_vars

WeaklyFairPullWalkOverride == []<>(~Pullable(wo)) \/ []<><<PullWalkOverride>>_vars

WeaklyFairPullDirWalk == []<>(~Pullable(dw)) \/ []<><<PullDirWalk>>_vars

SpecDrain ==
    /\ Init
    /\ [][NextDrain]_vars
    /\ WeaklyFairPullWalk
    /\ WeaklyFairPullWalkOverride
    /\ WeaklyFairPullDirWalk

----------------------------------------------------------------------------
(* Looking up names that are absolute or climb with ".." *)

\* Component::ParentDir
ParentDir == ".."

\* Component::RootDir. Absolute paths are written here from the directory all
\* roots lie in (CARGO_MANIFEST_DIR); a name that starts with RootDir is an
\* absolute one, and the rest of it is the path from there.
RootDir == "/"

\* the names handed to get_file: plain ones, ones that climb out of the
\* directory, absolute ones
AnyNames ==
    {<<"a">>, <<"s", "a">>, <<"x">>,
     <<ParentDir, "a">>, <<ParentDir, "r1", "a">>, <<"s", ParentDir, "a">>,
     <<RootDir, "r1", "a">>, <<RootDir, "r2", "a">>}

\* Path::join: an absolute name replaces the path, any other is appended as it is
PathJoin(path, name) ==
    IF name # <<>> /\ Head(name) = RootDir THEN Tail(name) ELSE path \o name

\* where the operating system arrives when it follows rest from cur: ".." steps
\* to the parent, and every component passed through must be a directory
RECURSIVE Resolved(_, _)
Resolved(cur, rest) ==
    IF rest = <<>> THEN Some(cur)
    ELSE IF ~(cur = <<>> \/ IsDir(cur)) THEN None
    ELSE IF Head(rest) = ParentDir
         THEN Resolved(IF cur = <<>> THEN <<>> ELSE SubSeq(cur, 1, Len(cur) - 1), Tail(rest))
         ELSE Resolved(Append(cur, Head(rest)), Tail(rest))

\* Path::is_file
PathIsFile(q) == Resolved(<<>>, q).tag = "Some" /\ IsFile(Resolved(<<>>, q).v)

\* Dir::get_file, for any name
GetFileNamed(d, name) ==
    IF d.tag = "Embed"
    THEN LET p == PathJoin(d.path, name)
         IN IF p # d.path /\ EmbIsFile(d, p)
            THEN Some(EmbedFile(d.root, p)) ELSE None
    ELSE LET new_path == PathJoin(d.path, name)
         IN IF PathIsFile(new_path) THEN Some(PathFile(d.root, new_path)) ELSE None

\* d.get_file(name)
CallDirGetFileNamed(d, name) ==
    /\ NoTraversal
    /\ res' = [op |-> "Dir::get_file", dir |-> d, name |-> name,
               ret |-> GetFileNamed(d, name)]
    /\ UNCHANGED <<disk, embedded, listing, dirs, silos, w, wo, dw, si, t1, t2>>

NextNamed ==
    \/ \E d \in DirHandles, name \in AnyNames : CallDirGetFileNamed(d, name)
    \/ \E d \in DirHandles : CallDirEntries(d)
    \/ \E d \in DirHandles : StartDirWalk(d)
    \/ PullDirWalk

SpecNamed == Init /\ [][NextNamed]_vars

----------------------------------------------------------------------------
(* What is on disk under a root, read off the tree and not through a handle *)

Max(S) == CHOOSE m \in S : \A x \in S : x <= m

HoldsFileAt(root, p) ==
    Join(root, p) \in DOMAIN disk /\ disk[Join(root, p)].kind = "file"

HoldsDirAt(root, p) ==
    p # <<>> /\ Join(root, p) \in DOMAIN disk /\ disk[Join(root, p)].kind = "dir"

\* the relative paths of the files under a root
FilesUnder(root) == {p \in FilePaths : HoldsFileAt(root, p)}

\* the positions of a list of roots that hold a regular file at p
Holders(rs, p) == {k \in 1..Len(rs) : HoldsFileAt(rs[k].root, p)}

\* where a file handle points on disk
OnDisk(f) == IF f.tag = "Embed" THEN Join(f.root, f.path) ELSE f.path

PathsOf(out) == [k \in 1..Len(out) |-> FilePath(out[k])]

Times(out, p) == Cardinality({k \in 1..Len(out) : FilePath(out[k]) = p})

NoPathTwice(out) ==
    \A j, k \in 1..Len(out) : j # k => FilePath(out[j]) # FilePath(out[k])

AllFilePaths == UNION {FilesUnder(dirs[i].root) : i \in 1..Len(dirs)}

SharedPaths == {p \in AllFilePaths : Cardinality(Holders(dirs, p)) > 1}

----------------------------------------------------------------------------
(* Claims *)

\* C1: get_file(name) on a DirSet or SiloSet returns the file of the
\* highest-index root of the set that holds a regular file at name, and
\* nothing iff no root holds one; so a set and the set with its roots
\* reversed return the files of opposite ends when several roots hold name.
C1_GetFileHighestRoot ==
    /\ res.op = "DirSet::get_file" =>
         LET hs == Holders(res.set, res.name)
         IN /\ (res.ret = None) <=> (hs = {})
            /\ hs # {} =>
                 /\ res.ret.tag = "Some"
                 /\ res.ret.v.root = res.set[Max(hs)].root
                 /\ FilePath(res.ret.v) = res.name
                 /\ ReadBytes(res.ret.v)
                      = Ok(disk[Join(res.set[Max(hs)].root, res.name)].bytes)
    /\ res.op = "SiloSet::get_file" =>
         LET hs == Holders(res.set, res.name)
         IN /\ (res.ret = None) <=> (hs = {})
            /\ hs # {} =>
                 /\ res.ret.tag = "Some"
                 /\ res.ret.v.full_path = Join(res.set[Max(hs)].root, res.name)
                 /\ SiloFilePath(res.ret.v) = res.name

\* two roots of differing backing both hold the name, and the reversed set was asked
C1_Witness ==
    /\ res.op = "DirSet::get_file"
    /\ Len(dirs) = 2
    /\ dirs[1].tag # dirs[2].tag
    /\ res.set = Reverse(dirs)
    /\ Cardinality(Holders(dirs, res.name)) = 2
    /\ res.ret.tag = "Some"
    /\ res.ret.v.root = dirs[1].root

\* C2: a complete walk_override() yields exactly one File per distinct relative
\* file path present in any root: no relative path twice, every file path of
\* every root once, and so every relative path a complete walk() yields.
C2_WalkOverrideOnePerPath ==
    /\ wo.started => NoPathTwice(wo.out)
    /\ Exhausted(wo) =>
         /\ {PathsOf(wo.out)[k] : k \in 1..Len(wo.out)} = AllFilePaths
         /\ Exhausted(w) =>
              {PathsOf(w.out)[k] : k \in 1..Len(w.out)}
                 \subseteq {PathsOf(wo.out)[k] : k \in 1..Len(wo.out)}

\* both traversals complete over roots that share a path
C2_Witness ==
    /\ Exhausted(wo) /\ Exhausted(w)
    /\ SharedPaths # {}
    /\ Len(wo.out) >= 2
    /\ Len(w.out) > Len(wo.out)

\* C3: every File that walk_override() (DirSet) or iter_override() (SiloSet)
\* yields comes from the highest-index root holding a file at its relative
\* path: it is the file, with the content, that get_file of that path returns.
C3_OverrideYieldsWinner ==
    /\ wo.started =>
         \A k \in 1..Len(wo.out) :
            LET f == wo.out[k]
                hs == Holders(dirs, FilePath(f))
            IN /\ hs # {}
               /\ f.root = dirs[Max(hs)].root
               /\ OnDisk(f) = Join(dirs[Max(hs)].root, FilePath(f))
               /\ DirSetGetFile(dirs, FilePath(f)) = Some(f)
               /\ ReadBytes(f) = Ok(disk[Join(dirs[Max(hs)].root, FilePath(f))].bytes)
    /\ si.started =>
         \A k \in 1..Len(si.out) :
            LET f == si.out[k]
                hs == Holders(silos, SiloFilePath(f))
            IN /\ hs # {}
               /\ f.full_path = Join(silos[Max(hs)].root, SiloFilePath(f))
               /\ SiloSetGetFile(silos, SiloFilePath(f)) = Some(f)

\* walk_override has yielded a path that a lower root holds too
C3_Witness ==
    /\ wo.started
    /\ \E k \in 1..Len(wo.out) :
          /\ Cardinality(Holders(dirs, FilePath(wo.out[k]))) = 2
          /\ wo.out[k].root = dirs[2].root

\* C4: a complete Dir::walk() yields every file of the subtree of its directory
\* exactly once and nothing else; a complete DirSet walk() yields the recursive
\* listings of all roots, one root after the other, without deduplication: a
\* relative path held by k roots is yielded k times and the number of files
\* yielded is the sum of the roots' file counts.
C4_WalkListsEveryFile ==
    /\ Exhausted(dw) =>
         LET under == {q \in DOMAIN disk :
                          IsPrefix(OnDisk(dw.dir), q) /\ disk[q].kind = "file"}
         IN /\ {OnDisk(dw.out[k]) : k \in 1..Len(dw.out)} = under
            /\ Len(dw.out) = Cardinality(under)
    /\ Exhausted(w) =>
         /\ \A p \in FilePaths : Times(w.out, p) = Cardinality(Holders(dirs, p))
         /\ \A k \in 1..Len(w.out) : FilePath(w.out[k]) \in FilePaths
         /\ \A i \in 1..Len(dirs) :
               {FilePath(w.out[k]) : k \in {j \in 1..Len(w.out) : w.out[j].root = dirs[i].root}}
                  = FilesUnder(dirs[i].root)
         /\ Len(w.out) = SeqSum([i \in 1..Len(dirs) |-> Cardinality(FilesUnder(dirs[i].root))])
         /\ \A j, k, l \in 1..Len(w.out) :
               (j < k /\ k < l /\ w.out[j].root = w.out[l].root)
                  => w.out[k].root = w.out[j].root

\* a walk over two roots sharing a path, then a Dir::walk into a nested file, both complete
C4_Witness ==
    /\ Exhausted(w) /\ Exhausted(dw)
    /\ SharedPaths # {}
    /\ \E p \in SharedPaths : Times(w.out, p) = 2
    /\ \E k \in 1..Len(dw.out) : Len(FilePath(dw.out[k])) > 1
    /\ Len(dw.out) >= 2

\* C5: a complete walk() yields at least as many files as a complete
\* walk_override(), and as many iff no relative file path is held by more
\* than one root.
C5_WalkCountsAtLeastOverride ==
    (Exhausted(w) /\ Exhausted(wo)) =>
        /\ Len(w.out) >= Len(wo.out)
        /\ (Len(w.out) = Len(wo.out)) <=> (SharedPaths = {})

\* two filesystem roots holding files, none of them shared: the counts are equal
C5_Witness ==
    /\ Exhausted(w) /\ Exhausted(wo)
    /\ Len(dirs) = 2
    /\ \A i \in 1..2 : dirs[i].tag = "Path" /\ FilesUnder(dirs[i].root) # {}
    /\ SharedPaths = {}
    /\ Len(w.out) = Len(wo.out)

\* C6: a DirSet of no roots is valid: entries() is empty, get_file(name) is
\* absent for every name, walk() and walk_override() report exhaustion on the
\* first pull having yielded nothing; each returns a value, none an error.
C6_EmptySetYieldsNothing ==
    dirs = <<>> =>
        /\ res.op = "DirSet::entries" => res.ret = <<>>
        /\ res.op = "DirSet::get_file" => res.ret = None
        /\ (w.started /\ w.last # Unpulled) => (w.last = None /\ w.out = <<>>)
        /\ (wo.started /\ wo.last # Unpulled) => (wo.last = None /\ wo.out = <<>>)

\* both traversals of the empty set have been pulled
C6_Witness ==
    /\ dirs = <<>>
    /\ w.started /\ w.last # Unpulled
    /\ wo.started /\ wo.last # Unpulled

\* C7: two File handles are equal iff their relative paths are equal, whatever
\* their roots, backing or content, and equal handles have equal hashes: the
\* hash is taken from the relative path alone (fs-embed and rust-silos).
C7_FileEqualityByRelativePath ==
    (res.op \in {"File::eq", "silos::File::eq"}) =>
        /\ res.ret <=> (res.na = res.nb)
        /\ res.ret => res.ha = res.hb
        /\ (res.na = res.nb) => res.ha = res.hb

\* files of one name under two roots of differing backing and content compare equal
C7_Witness ==
    /\ res.op = "File::eq"
    /\ res.i # res.j
    /\ dirs[res.i].tag # dirs[res.j].tag
    /\ res.na = res.nb
    /\ ReadBytes(FileOf(dirs[res.i], res.na)) # ReadBytes(FileOf(dirs[res.j], res.nb))
    /\ res.ret

ChildrenOf(root) == {n \in Range(Names) : Join(root, <<n>>) \in DOMAIN disk}

Offset(i) == SeqSum([j \in 1..(i - 1) |-> Cardinality(ChildrenOf(dirs[j].root))])

\* C9: DirSet entries() is the immediate entries of every root, the roots in
\* list order, without deduplication: its length is the sum of the roots'
\* entry counts and a name held by several roots appears once per root.
C9_EntriesConcatenateInListOrder ==
    res.op = "DirSet::entries" =>
        /\ Len(res.ret) = Offset(Len(dirs) + 1)
        /\ \A i \in 1..Len(dirs) :
              /\ {OnDisk(res.ret[k].inner) : k \in (Offset(i) + 1)..Offset(i + 1)}
                    = {Join(dirs[i].root, <<n>>) : n \in ChildrenOf(dirs[i].root)}
              /\ \A k \in (Offset(i) + 1)..Offset(i + 1) :
                    /\ res.ret[k].inner.root = dirs[i].root
                    /\ (res.ret[k].is = "File") <=> disk[OnDisk(res.ret[k].inner)].kind = "file"
                    /\ res.ret[k].inner.tag = dirs[i].tag

\* two roots that differ in what they hold and share an entry name
C9_Witness ==
    /\ res.op = "DirSet::entries"
    /\ Len(dirs) = 2
    /\ ChildrenOf(dirs[1].root) # ChildrenOf(dirs[2].root)
    /\ ChildrenOf(dirs[1].root) \cap ChildrenOf(dirs[2].root) # {}
    /\ Len(res.ret) >= 3

\* UTF-8 as the encoding of scalar values: the bytes of one scalar value
Utf8EncodeChar(c) ==
    IF c < 128 THEN <<c>>
    ELSE IF c < 2048 THEN <<192 + (c \div 64), 128 + (c % 64)>>
    ELSE IF c < 65536
         THEN <<224 + (c \div 4096), 128 + ((c \div 64) % 64), 128 + (c % 64)>>
    ELSE <<240 + (c \div 262144), 128 + ((c \div 4096) % 64),
           128 + ((c \div 64) % 64), 128 + (c % 64)>>

RECURSIVE Utf8Encode(_)
Utf8Encode(text) ==
    IF text = <<>> THEN <<>> ELSE Utf8EncodeChar(Head(text)) \o Utf8Encode(Tail(text))

IsScalar(c) == c >= 0 /\ c <= 1114111 /\ ~(c >= 55296 /\ c <= 57343)

\* the scalar values whose encoding is made of sample bytes; no sample byte
\* leads a four-byte encoding, so they all lie below 65536
SampleScalars ==
    {c \in 0..65535 : IsScalar(c) /\ Range(Utf8EncodeChar(c)) \subseteq ByteSamples}

\* bs is the encoding of some text
RECURSIVE IsUtf8(_)
IsUtf8(bs) ==
    \/ bs = <<>>
    \/ \E c \in SampleScalars :
          /\ IsPrefix(Utf8EncodeChar(c), bs)
          /\ IsUtf8(SubSeq(bs, Len(Utf8EncodeChar(c)) + 1, Len(bs)))

\* the bytes of the file, as stored
Content == disk[Join(RootPath(1), ReadName)].bytes

\* C10: for a file of either backing whose bytes are not valid UTF-8, read_str
\* returns an error while read_bytes through the same handle returns exactly
\* the bytes; when the bytes are valid UTF-8, read_str returns the text whose
\* encoding is exactly those bytes.
C10_ReadStrFailsOnInvalidUtf8 ==
    res.op = "File::read" =>
        /\ res.read_bytes # Unpulled => res.read_bytes = Ok(Content)
        /\ res.read_str # Unpulled =>
             IF IsUtf8(Content)
             THEN /\ res.read_str.tag = "Ok"
                  /\ \A k \in 1..Len(res.read_str.v) : IsScalar(res.read_str.v[k])
                  /\ Utf8Encode(res.read_str.v) = Content
             ELSE res.read_str.tag = "Err"

\* the three bytes FF FE FD: read_str has failed and read_bytes has returned them
C10_Witness ==
    /\ res.op = "File::read"
    /\ Content = <<255, 254, 253>>
    /\ res.read_str = Err("InvalidData")
    /\ res.read_bytes = Ok(<<255, 254, 253>>)

\* C11 as stated: an embedded directory and its into_dynamic() list the same
\* relative paths via walk(), and get_file(p) of every such path p resolves on
\* both to files of identical bytes.
C11_IntoDynamicResolvesWalkedPaths ==
    res.op = "Dir::into_dynamic" =>
        /\ {FilePath(res.walk[k]) : k \in 1..Len(res.walk)}
              = {FilePath(res.dyn_walk[k]) : k \in 1..Len(res.dyn_walk)}
        /\ \A p \in DOMAIN res.by_path :
              /\ res.by_path[p].emb.tag = "Some"
              /\ res.by_path[p].emb = res.by_path[p].dyn

\* C11: an embedded directory D (a root or a subdirectory handed out by
\* entries()) whose tree on disk is as embedded and D.into_dynamic() list the
\* same relative paths via walk(), the files under D; for every such path p,
\* get_file of p taken relative to D (p with D.path() stripped, p itself for a
\* root) resolves on both and read_bytes() returns the same bytes, those on disk.
C11_IntoDynamicEquivalent ==
    res.op = "Dir::into_dynamic" =>
        /\ {FilePath(res.walk[k]) : k \in 1..Len(res.walk)}
              = {FilePath(res.dyn_walk[k]) : k \in 1..Len(res.dyn_walk)}
        /\ {FilePath(res.walk[k]) : k \in 1..Len(res.walk)}
              = {p \in FilePaths : IsPrefix(res.dir.path, p) /\ HoldsFileAt(res.dir.root, p)}
        /\ \A p \in DOMAIN res.by_name :
              /\ res.by_name[p].emb = Some(Ok(disk[Join(res.dir.root, p)].bytes))
              /\ res.by_name[p].emb = res.by_name[p].dyn

\* a subdirectory handle holding a file was converted
C11_Witness ==
    /\ res.op = "Dir::into_dynamic"
    /\ res.dir.path # <<>>
    /\ res.ret = PathDir(res.dir.root, Join(res.dir.root, res.dir.path))
    /\ Len(res.walk) >= 1
    /\ \E p \in DOMAIN res.by_name : res.by_name[p].dyn.tag = "Some"

\* C12: two fresh traversals of the same kind over the same unmodified DirSet
\* yield identical sequences of files, however much of the first had been
\* consumed when the second was constructed: at every moment one output is a
\* prefix of the other, and once both have ended they are the same sequence.
C12_FreshTraversalsAgree ==
    (t1.started /\ t2.started /\ t1.kind = t2.kind) =>
        /\ IsPrefix(t1.out, t2.out) \/ IsPrefix(t2.out, t1.out)
        /\ (Exhausted(t1) /\ Exhausted(t2)) =>
              /\ t1.out = t2.out
              /\ Range(t1.out) = Range(t2.out)

\* two walk_override traversals over roots that share a path and hold a
\* subdirectory have both run to the end, yielding several files
C12_Witness ==
    /\ t1.started /\ t2.started
    /\ t1.kind = "walk_override" /\ t2.kind = "walk_override"
    /\ Exhausted(t1) /\ Exhausted(t2)
    /\ Len(t2.out) >= 2
    /\ Len(t2.expanded) > Len(dirs)
    /\ SharedPaths # {}

\* C19: two traversals made from the same DirSet share no state: however their
\* pulls interleave, what each has yielded so far is the beginning of the
\* sequence that traversal yields when collected alone, and all of it once it has
\* ended; a path one walk_override has yielded is still yielded by the other.
C19_TraversalsIndependent ==
    \A t \in {t1, t2} :
        t.started =>
            LET alone == IF t.kind = "walk" THEN DirSetWalkCollect(dirs)
                         ELSE DirSetWalkOverrideCollect(dirs)
            IN /\ IsPrefix(t.out, alone)
               /\ Exhausted(t) => t.out = alone
               /\ t.kind = "walk_override" =>
                     \A k \in 1..Len(t.out) : FilePath(t.out[k]) = FilePath(alone[k])

\* two walk_override traversals are both under way, each having yielded a file
\* the other has yielded too, and neither has ended
C19_Witness ==
    /\ t1.started /\ t2.started
    /\ t1.kind = "walk_override" /\ t2.kind = "walk_override"
    /\ t1.last.tag = "Some" /\ t2.last.tag = "Some"
    /\ t1.queue # <<>> /\ t2.queue # <<>>
    /\ t1.history \cap t2.history # {}
    /\ Len(t1.out) # Len(t2.out)

\* the index in the DirSet of the root a yielded file was found under
RootOf(f) == CHOOSE k \in 1..Len(dirs) : dirs[k].root = f.root

\* C13: flat walks are breadth-first within each root: in walk() of a directory
\* and of a DirSet, no file at depth d+1 is yielded before a file of the same
\* root at depth d.
C13_FlatWalkBreadthFirst ==
    \A it \in {w, dw} :
        it.started =>
            \A i, j \in 1..Len(it.out) :
                (i < j /\ it.out[i].root = it.out[j].root)
                    => Len(FilePath(it.out[i])) <= Len(FilePath(it.out[j]))

\* C14: both DirSet traversals visit the roots highest index first: in walk()
\* and in walk_override() every file yielded from a higher-index root is yielded
\* before any file yielded from a lower-index root.
C14_RootsVisitedHighestFirst ==
    \A it \in {w, wo} :
        it.started =>
            \A i, j \in 1..Len(it.out) :
                i < j => RootOf(it.out[i]) >= RootOf(it.out[j])

\* the entries a traversal has been handed so far: one per root, and the
\* listing of every directory it has expanded
HandedOut(it) ==
    {DirEntry(dirs[k]) : k \in 1..Len(dirs)}
        \cup UNION {Range(Entries(it.expanded[k])) : k \in 1..Len(it.expanded)}

\* how many entries of the sequence q belong to the set S
CountIn(q, S) == Cardinality({k \in 1..Len(q) : q[k] \in S})

\* C15: DirSet traversals are pull-based. Constructing walk()/walk_override()
\* expands no directory (the queue holds the roots, unlisted); a pull stops at
\* the file it yields: every entry handed out by a listing is still pending, is
\* an expanded directory, or is a file already popped (for walk, exactly the
\* files yielded), and the directory expanded last has had an entry popped; no
\* directory still pending has been expanded.
C15_TraversalIsLazy ==
    \A it \in {w, wo} :
        it.started =>
            /\ it.last = Unpulled =>
                  /\ it.expanded = <<>>
                  /\ it.queue \in {DirSetWalkQueue(dirs), DirSetWalkOverrideQueue(dirs)}
                  /\ \A k \in 1..Len(it.queue) : it.queue[k].is = "Dir"
                  /\ Len(it.queue) = Len(dirs)
            /\ \A k \in 1..Len(it.queue) :
                  /\ it.queue[k] \in HandedOut(it)
                  /\ it.queue[k].is = "Dir" => it.queue[k].inner \notin Range(it.expanded)
            /\ \A k \in 1..Len(it.expanded) : DirEntry(it.expanded[k]) \in HandedOut(it)
            /\ \A k \in 1..Len(it.out) : FileEntry(it.out[k]) \in HandedOut(it)
            /\ Cardinality(HandedOut(it)) >= Len(it.queue) + Len(it.expanded) + Len(it.out)
            /\ it = w => Cardinality(HandedOut(it)) = Len(it.queue) + Len(it.expanded) + Len(it.out)
            /\ (it.last.tag = "Some" /\ it.expanded # <<>>) =>
                  LET listing_of_last == Range(Entries(it.expanded[Len(it.expanded)]))
                  IN listing_of_last # {} =>
                        CountIn(it.queue, listing_of_last) < Cardinality(listing_of_last)

\* a consumer has taken one file from walk_override() while a directory that
\* holds files is still pending, unlisted
C15_Witness ==
    /\ wo.started
    /\ wo.last.tag = "Some"
    /\ Len(wo.out) = 1
    /\ \E k \in 1..Len(wo.queue) :
          /\ wo.queue[k].is = "Dir"
          /\ Entries(wo.queue[k].inner) # <<>>
          /\ wo.queue[k].inner \notin Range(wo.expanded)

\* C17: for both backings Dir::get_file(name) returns a file exactly when a
\* regular file exists at that name under the directory, and then a handle to
\* that file; a missing name or the name of a directory gives None, which is a
\* value and not an error; DirSet::get_file gives None when no root has the file.
C17_GetFileIffRegularFile ==
    /\ res.op = "Dir::get_file" =>
          /\ res.ret.tag \in {"Some", "None"}
          /\ res.ret.tag = "Some" <=> HoldsFileAt(OnDisk(res.dir), res.name)
          /\ res.ret.tag = "Some" =>
                /\ OnDisk(res.ret.v) = Join(OnDisk(res.dir), res.name)
                /\ res.ret.v.tag = res.dir.tag
          /\ ~HoldsFileAt(OnDisk(res.dir), res.name) => res.ret = None
    /\ res.op = "DirSet::get_file" =>
          /\ res.ret.tag \in {"Some", "None"}
          /\ Holders(res.set, res.name) = {} => res.ret = None

\* a filesystem-backed directory was asked for the name of one of its
\* subdirectories and answered None
C17_Witness ==
    /\ res.op = "Dir::get_file"
    /\ res.dir.tag = "Path"
    /\ HoldsDirAt(OnDisk(res.dir), res.name)
    /\ res.ret = None

\* C20 as stated: once a File handle has been obtained, later changes to the
\* file on disk are invisible through it: read_bytes, read_str and metadata
\* return what they returned when the handle was created.
C20_HandleSeesNoLaterChange ==
    res.op = "reread" => res.after = res.before

\* C20: later changes to the file on disk are invisible through an embedded
\* handle: read_bytes, read_str and metadata return what they returned when the
\* handle was created. A filesystem-backed handle reads the disk at every call:
\* it returns the content, size and modification time the file has at that
\* moment, and an error once the file is deleted.
C20_OnlyEmbeddedHandlesAreFrozen ==
    res.op = "reread" =>
        LET f == res.file
        IN /\ f.tag = "Embed" =>
                 /\ res.after = res.before
                 /\ res.after.read_bytes = Ok(embedded[f.root][f.path].bytes)
           /\ (f.tag = "Path" /\ res.at = None) =>
                 /\ res.after.read_bytes.tag = "Err"
                 /\ res.after.read_str.tag = "Err"
                 /\ res.after.metadata.tag = "Err"
           /\ (f.tag = "Path" /\ res.at # None) =>
                 LET now == res.at.v
                 IN /\ res.after.read_bytes = Ok(now.bytes)
                    /\ res.after.read_str.tag = "Ok" =>
                          Utf8Encode(res.after.read_str.v) = now.bytes
                    /\ (\A k \in 1..Len(now.bytes) : now.bytes[k] < 128) =>
                          res.after.read_str = Ok(now.bytes)
                    /\ (\E k \in 1..Len(now.bytes) : now.bytes[k] >= 248) =>
                          res.after.read_str.tag = "Err"
                    /\ res.after.metadata = Ok([modified |-> now.modified.v,
                                                size |-> Len(now.bytes)])
                    /\ now.modified = Some(0) => res.after = res.before

\* a filesystem-backed handle was read again after its file had been rewritten,
\* and returned the new bytes
C20_Witness ==
    /\ res.op = "reread"
    /\ res.file.tag = "Path"
    /\ res.at # None
    /\ res.at.v.modified = Some(1)
    /\ res.before.read_bytes.tag = "Ok"
    /\ res.after.read_bytes.tag = "Ok"
    /\ res.after.read_bytes # res.before.read_bytes

\* the file at p under the root d can be found by listing, now: every directory
\* above it can be read
Reachable(d, p) ==
    IF d.tag = "Embed" THEN EmbIsFile(d, p)
    ELSE /\ HoldsFileAt(d.root, p)
         /\ \A n \in 0..(Len(p) - 1) : ReadDirOk(Join(d.root, SubSeq(p, 1, n)))

\* C16: entries() never reports an error: it returns a listing, the empty one
\* for a filesystem-backed directory that cannot be read (missing, not a
\* directory, listing denied, deleted meanwhile); a walk()/walk_override() that
\* meets such a directory ends normally, having yielded every file that lies
\* outside the unreadable directories.
C16_UnreadableDirectoryIsEmpty ==
    /\ res.op = "Dir::entries" =>
          /\ \A k \in 1..Len(res.ret) : res.ret[k].is \in {"File", "Dir"}
          /\ ~res.readable => res.ret = <<>>
    /\ \A it \in {w, wo} :
          it.started =>
              /\ it.last = Unpulled \/ it.last = None \/ it.last.tag = "Some"
              /\ Exhausted(it) =>
                    /\ it.queue = <<>>
                    /\ \A k \in 1..Len(dirs), p \in FilePaths :
                          Reachable(dirs[k], p) =>
                              \E j \in 1..Len(it.out) :
                                  /\ FilePath(it.out[j]) = p
                                  /\ it = w => it.out[j].root = dirs[k].root

\* walk() listed a root, then met a subdirectory of it that had been removed
\* meanwhile, found it empty, went on to yield a file and ended
C16_Witness ==
    /\ Exhausted(w)
    /\ Len(w.out) >= 1
    /\ \E k \in 1..Len(w.expanded) :
          /\ w.expanded[k].tag = "Path"
          /\ w.expanded[k].path # w.expanded[k].root
          /\ w.expanded[k].path \notin DOMAIN disk
          /\ \E j \in 1..Len(w.out) :
                /\ ~IsPrefix(DirPath(w.expanded[k]), FilePath(w.out[j]))
                /\ \E m \in (k + 1)..Len(w.expanded) :
                      w.out[j] \in {e.inner : e \in Range(Entries(w.expanded[m]))}

\* the roots the DirSet was made of, read off the disk and the binary
GivenRoots ==
    [i \in 1..Cardinality({q \in DOMAIN disk : Len(q) = 1}) |->
        IF RootPath(i) \in DOMAIN embedded
        THEN EmbedDir(RootPath(i), <<>>) ELSE PathDir(RootPath(i), RootPath(i))]

\* C18: no operation changes a DirSet or a handle: after any sequence of
\* get_file, entries, walk, walk_override, read_bytes, read_str and metadata
\* calls, failed ones included, the list of roots is as given, in the given
\* order, the file handle kept is the one get_file handed out, and the call made
\* last returned what it returns on the set as given.
C18_CallsLeaveSetAndHandlesAlone ==
    /\ dirs = GivenRoots
    /\ res.op # "none" =>
          /\ res.held = DirSetGetFile(GivenRoots, res.name)
          /\ res.op = "get_file" => res.ret = DirSetGetFile(GivenRoots, res.name)
          /\ res.op = "entries" => res.ret = Ok(DirSetEntries(GivenRoots))
          /\ res.op = "walk" => res.ret = Ok(DirSetWalkCollect(GivenRoots))
          /\ res.op = "walk_override" => res.ret = Ok(DirSetWalkOverrideCollect(GivenRoots))
          /\ res.op = "read_bytes" => res.ret = Ok(disk[OnDisk(res.held.v)].bytes)
          /\ res.op = "read_str" =>
                res.ret = ReadStr(DirSetGetFile(GivenRoots, res.name).v)
          /\ res.op = "metadata" =>
                res.ret = Metadata(DirSetGetFile(GivenRoots, res.name).v)

\* after a call that failed, walk_override() of a set of two roots returned
\* files while the caller still holds a file handle
C18_Witness ==
    /\ res.op = "walk_override"
    /\ res.failed
    /\ res.held # None
    /\ Len(dirs) = 2
    /\ Len(res.ret.v) >= 2

\* no element occurs twice in the sequence
NoRepeat(q) == \A i, j \in 1..Len(q) : i # j => q[i] # q[j]

\* what a traversal keeps to at every moment: no directory expanded twice, no
\* entry yielded twice, nothing pending once it has returned None
DrainsOnce(it) ==
    it.started =>
        /\ NoRepeat(it.expanded)
        /\ NoRepeat(it.out)
        /\ \A k \in 1..Len(it.queue) :
              /\ it.queue[k].is = "Dir" => it.queue[k].inner \notin Range(it.expanded)
              /\ it.queue[k].is = "File" => it.queue[k].inner \notin Range(it.out)
        /\ Exhausted(it) => it.queue = <<>>

\* C21: over finite trees every walk()/walk_override() traversal that goes on
\* being pulled becomes exhausted; no directory is expanded twice and no entry
\* popped twice; once next() has returned None the queue stays empty, the
\* traversal no longer changes and every later next() returns None.
C21_TraversalsEnd ==
    /\ [](DrainsOnce(w) /\ DrainsOnce(wo) /\ DrainsOnce(dw))
    /\ []((res.op = "Iterator::next" /\ res.spent) => res.ret = None)
    /\ [][(Exhausted(w) => w' = w) /\ (Exhausted(wo) => wo' = wo)
            /\ (Exhausted(dw) => dw' = dw)]_vars
    /\ w.started ~> Exhausted(w)
    /\ wo.started ~> Exhausted(wo)
    /\ dw.started ~> Exhausted(dw)

\* walk() over two roots has yielded files from under a subdirectory, has
\* returned None, and has been asked again
C21_Witness ==
    /\ Exhausted(w)
    /\ res.op = "Iterator::next" /\ res.spent /\ res.ret = None
    /\ Len(dirs) = 2
    /\ Len(w.out) >= 3
    /\ Len(w.expanded) > Len(dirs)

\* C22: in walk_override() the visited-path set is exactly the relative paths
\* of the files yielded so far; directories are never dropped because of it:
\* every directory of every root is expanded, whatever was expanded or yielded
\* under the same relative path before, so each path that is a file in some
\* root is yielded, also one found only in a lower root's copy of a shared
\* subdirectory.
C22_HistoryHoldsYieldedFilesOnly ==
    wo.started =>
        /\ wo.history = {FilePath(f) : f \in Range(wo.out)}
        /\ \A d \in Range(wo.expanded) : d \in DirHandles
        /\ Exhausted(wo) =>
              /\ \A d \in DirHandles : d \in Range(wo.expanded)
              /\ \A p \in AllFilePaths : \E f \in Range(wo.out) : FilePath(f) = p

\* both roots hold the directory s, only the lower one holds s/a, and the
\* finished walk_override() has yielded it after expanding s of the higher root
C22_Witness ==
    /\ Exhausted(wo)
    /\ Len(dirs) = 2
    /\ HoldsDirAt(dirs[1].root, <<"s">>)
    /\ HoldsDirAt(dirs[2].root, <<"s">>)
    /\ HoldsFileAt(dirs[1].root, <<"s", "a">>)
    /\ ~HoldsFileAt(dirs[2].root, <<"s", "a">>)
    /\ \E j, k \in 1..Len(wo.expanded) :
          /\ j < k
          /\ wo.expanded[j].root = dirs[2].root /\ DirPath(wo.expanded[j]) = <<"s">>
          /\ wo.expanded[k].root = dirs[1].root /\ DirPath(wo.expanded[k]) = <<"s">>
    /\ \E f \in Range(wo.out) : FilePath(f) = <<"s", "a">> /\ f.root = dirs[1].root

\* C23: get_file(name) on a subdirectory handle S that entries() handed out
\* resolves name relative to S: it returns the file, of the backing and root of
\* S, whose path() is S.path() joined with name, and nothing when S holds no
\* regular file there.
C23_SubdirGetFileIsRelative ==
    (res.op = "Dir::get_file" /\ DirPath(res.dir) # <<>>) =>
        LET p == Join(DirPath(res.dir), res.name)
        IN IF HoldsFileAt(res.dir.root, p)
           THEN /\ res.ret.tag = "Some"
                /\ FilePath(res.ret.v) = p
                /\ res.ret.v.tag = res.dir.tag
                /\ res.ret.v.root = res.dir.root
                /\ OnDisk(res.ret.v) = Join(res.dir.root, p)
           ELSE res.ret = None

\* the embedded subdirectory s, listed from a root that also holds a file a,
\* is asked for a and returns s/a
C23_Witness ==
    /\ res.op = "Dir::get_file"
    /\ res.dir.tag = "Embed"
    /\ DirPath(res.dir) = <<"s">>
    /\ \E k \in 1..Len(dirs) :
          \E e \in Range(Entries(dirs[k])) : e.is = "Dir" /\ e.inner = res.dir
    /\ res.name = <<"a">>
    /\ HoldsFileAt(res.dir.root, <<"a">>)
    /\ res.ret.tag = "Some"
    /\ FilePath(res.ret.v) = <<"s", "a">>

\* a handle of a root: made by from_path, from_str or from_embedded, or the
\* into_dynamic() of one
IsRootHandle(d) == \E k \in 1..Len(dirs) : d \in {dirs[k], IntoDynamic(dirs[k])}

\* where the directory of a handle lies under its root, whatever the backing
Below(d) == IF d.tag = "Embed" THEN d.path ELSE SubSeq(d.path, Len(d.root) + 1, Len(d.path))

\* C24: two Directory handles are equal iff their relative paths are equal, and
\* then hash alike, whatever their roots and backings: every root handle equals
\* every other root handle, and two DirSets of as many root handles are equal
\* and hash alike whatever their roots and the order of them.
C24_DirEqualityByRelativePath ==
    /\ res.op = "Dir::eq" =>
          /\ res.ret <=> (Below(res.a) = Below(res.b))
          /\ (IsRootHandle(res.a) /\ IsRootHandle(res.b)) => res.ret
          /\ res.ret => res.ha = res.hb
    /\ res.op = "DirSet::eq" =>
          /\ res.ret <=> (Len(res.x) = Len(res.y))
          /\ res.ret => res.hx = res.hy

\* a set of an embedded and a filesystem root of different trees is compared
\* with the set of the same roots in the opposite order, and found equal
C24_Witness ==
    /\ res.op = "DirSet::eq"
    /\ Len(dirs) = 2
    /\ dirs[1].tag # dirs[2].tag
    /\ FilesUnder(dirs[1].root) # FilesUnder(dirs[2].root)
    /\ res.x = dirs
    /\ res.y = Reverse(dirs)
    /\ res.ret

\* the files a call has handed to its caller: by get_file, entries() or walk()
\* of a directory handle
FilesReturned ==
    (IF res.op = "Dir::get_file" /\ res.ret.tag = "Some" THEN {res.ret.v} ELSE {})
    \cup (IF res.op = "Dir::entries"
          THEN {e.inner : e \in {x \in Range(res.ret) : x.is = "File"}} ELSE {})
    \cup (IF dw.started THEN Range(dw.out) ELSE {})

\* C25: every file that entries(), walk() or get_file(name) of a
\* filesystem-backed directory returns, whatever the name, lies under the root
\* of the directory: its stored path starts with the root, so that path() is
\* the root-stripped relative path, and following it on disk ends under the root.
C25_FilesStayUnderRoot ==
    \A f \in FilesReturned :
        f.tag = "Path" =>
            /\ IsPrefix(f.root, f.path)
            /\ FilePath(f) = SubSeq(f.path, Len(f.root) + 1, Len(f.path))
            /\ IsPrefix(f.root, Resolved(<<>>, f.path).v)

====
